---------------------------- MODULE Spec2Model ----------------------------
(***************************************************************************)
(* State-machine model of the Task-2 engine of MDP-Algo                    *)
(* (src/TaskTwoSimulation.py): the ten motion primitives, the collision    *)
(* predicate, the two avoidance choreographies and the scan-and-avoid      *)
(* loop task2Algo, together with the event loop that drives them; and of   *)
(* the simulator of src/simulation.py: its ten primitives, its busy flag   *)
(* and the execution of a planned command list; and of the socket link of  *)
(* src/connection_to_rpi: the calls of RPiClient, connect_to_pc_server and *)
(* RPiServer.receive_data.                                                 *)
(*                                                                         *)
(* A pose is a record [row, col, dir] (the tuple self.currentPos of the    *)
(* source).  The robot object keeps its own position in world units        *)
(* (variable bot); self.currentPos is the cached grid pose that            *)
(* updatingTask2Display recomputes from it.                                *)
(***************************************************************************)
EXTENDS Integers, Sequences, FiniteSets, TLC

(***************************************************************************)
(* Program constants.                                                      *)
(***************************************************************************)
\* constants.TASK2_LENGTH: the arena is 400 world units long (40 rows)
TASK2_LENGTH == 400

\* constants.TASK2_WIDTH: the arena is 150 world units wide (15 columns)
TASK2_WIDTH == 150

\* constants.GRID_CELL_LENGTH: one grid cell is 10 world units
GRID_CELL_LENGTH == 10

\* constants.TASK2_SCALING_FACTOR: world units to pixels; it multiplies both
\* sides of every comparison it occurs in
TASK2_SCALING_FACTOR == 2

(***************************************************************************)
(* Bounds of the model.                                                    *)
(***************************************************************************)
\* The engine lets the robot leave the arena; the model follows it at most
\* Margin cells beyond each edge.
Margin == 3

\* How many more events the event loop may hand over in one batch (one pass
\* of the for-loop over pygame.event.get()) after the first.
MaxExtraEvents == 1

(***************************************************************************)
(* Directions, poses, integer helpers.                                     *)
(***************************************************************************)
Direction == {"TOP", "RIGHT", "BOTTOM", "LEFT"}

\* Python's floor division a // b for b > 0 (\div rounds down as // does:
\* -25 // 10 = -3)
FloorDiv(a, b) ==
    a \div b

grid_length == TASK2_LENGTH * TASK2_SCALING_FACTOR

grid_width == TASK2_WIDTH * TASK2_SCALING_FACTOR

cell_size == GRID_CELL_LENGTH * TASK2_SCALING_FACTOR

Rows == TASK2_LENGTH \div GRID_CELL_LENGTH

Cols == TASK2_WIDTH \div GRID_CELL_LENGTH

Pose(r, c, d) == [row |-> r, col |-> c, dir |-> d]

\* 0 <= row < rows and 0 <= col < cols of the data model
InBounds(p) ==
    /\ 0 <= p.row /\ p.row < Rows
    /\ 0 <= p.col /\ p.col < Cols

\* the part of the plane the model follows the robot in
InWindow(p) ==
    /\ -Margin <= p.row /\ p.row < Rows + Margin
    /\ -Margin <= p.col /\ p.col < Cols + Margin

(***************************************************************************)
(* State.                                                                  *)
(***************************************************************************)
VARIABLES
    bot,         \* self.bot's position: [x, y, direction], world units
    currentPos,  \* self.currentPos: the cached grid pose [row, col, dir]
    obstacles,   \* self.obstacles: world positions [x, y] of the obstacles
    direction,   \* self.direction: the side hints <<first, second>>
    arc,         \* the turning-arc constants of the constants module
    movement,    \* movement["forward"] of the running task2Algo
    pc,          \* where task2Algo is: idle, scan1, avoid1, scan2, avoid2, done
    step,        \* the statement of the active choreography that runs next
    remaining,   \* iterations left of the range(movement["forward"]) loop
    pending,     \* events handled since the last updatingTask2Display
    lastOps,     \* the primitives the latest step attempted: <<[op, result]>>
    episode,     \* pose, credit and loop bound noted when a choreography starts
    script,      \* primitives attempted by the active choreography, in order
    phaseLog,    \* phases the current run has entered, in order
    is_executing, \* self.is_executing of simulation.py (the Task-2 engine has none)
    commands,    \* self.bot.hamiltonian.commands of simulation.py
    queue,       \* pygame's event queue: events posted and not yet fetched
    batch,       \* events the main loop has fetched and not yet handled
    posted,      \* how many events have been posted to the queue so far
    trail,       \* the primitives a probe or a command sequence attempted, with outcomes
    client,      \* the RPiClient object: [socket, _connected]
    calls,       \* the calls made on the client so far, with their outcomes
    wire,        \* the bytes the peer sends on conn before it closes
    data_chunks, \* receive_data's list of the chunks received so far
    received     \* what receive_data, or connect_to_pc_server, handed to its caller

\* the state of the socket link to the Raspberry Pi (connection_to_rpi)
linkState ==
    <<client, calls, wire, data_chunks, received>>

\* the state of simulation.py's command execution and the attempt history,
\* and all other state the Task-2 engine never touches
simState ==
    <<is_executing, commands, queue, batch, posted, trail, linkState>>

vars ==
    <<bot, currentPos, obstacles, direction, arc, movement, pc, step,
      remaining, pending, lastOps, episode, script, phaseLog,
      is_executing, commands, queue, batch, posted, trail,
      client, calls, wire, data_chunks, received>>

\* RPiClient.__init__: no socket yet, not connected
NewClient ==
    [socket |-> "None", _connected |-> FALSE]

\* nothing has been returned yet
Nothing == << >>

\* the simulations never open the link
NoLink ==
    /\ client = NewClient
    /\ calls = << >>
    /\ wire = << >>
    /\ data_chunks = << >>
    /\ received = Nothing

(***************************************************************************)
(* The robot object (robot/robot.py is not part of the sources read here). *)
(***************************************************************************)
\* Robot.set_position_task2(row, col, direction): stores the pose in world
\* units, the inverse of the read-back in updatingTask2Display
set_position_task2(r, c, d) ==
    [x |-> TASK2_LENGTH - GRID_CELL_LENGTH - r * 10, y |-> c * 10,
     direction |-> d]

\* the first statements of updatingTask2Display: self.currentPos from
\* self.bot.get_current_pos()
updatingTask2Display(b) ==
    Pose(FloorDiv(TASK2_LENGTH - GRID_CELL_LENGTH - b.x, 10),
         FloorDiv(b.y, 10), b.direction)

(***************************************************************************)
(* Turning-arc constants (constants.py is not part of the sources read     *)
(* here).  An arc is given by how far the turn carries the robot ahead and *)
(* to the side, in world units; the constant of a heading is that arc      *)
(* turned into the heading's frame, as (x offset, y offset) with x to the  *)
(* right of the screen and y up.                                           *)
(***************************************************************************)
MedArc == [med |-> <<30, 20>>, small |-> <<20, 10>>]

ArcChoices ==
    { MedArc, [med |-> <<20, 30>>, small |-> <<25, 15>>] }

\* unit vector ahead of a heading, <<x, y>>
Ahead(d) ==
    CASE d = "TOP" -> <<0, 1>>
      [] d = "RIGHT" -> <<1, 0>>
      [] d = "BOTTOM" -> <<0, -1>>
      [] d = "LEFT" -> <<-1, 0>>

\* unit vector to the right-hand side of a heading, <<x, y>>
Starboard(d) ==
    CASE d = "TOP" -> <<1, 0>>
      [] d = "RIGHT" -> <<0, -1>>
      [] d = "BOTTOM" -> <<-1, 0>>
      [] d = "LEFT" -> <<0, 1>>

\* a * Ahead(d) + s * Starboard(d)
ArcOffset(d, a, s) ==
    <<a * Ahead(d)[1] + s * Starboard(d)[1],
      a * Ahead(d)[2] + s * Starboard(d)[2]>>

\* constants.TURN_MED_<RIGHT|LEFT>_<heading>_FORWARD
TURN_MED_FORWARD(side, d, k) ==
    ArcOffset(d, k.med[1], IF side = "right" THEN k.med[2] ELSE -k.med[2])

\* constants.TURN_SMALL_<RIGHT|LEFT>_<heading>_<FORWARD|REVERSE>
TURN_SMALL(side, gear, d, k) ==
    ArcOffset(d, IF gear = "forward" THEN k.small[1] ELSE -k.small[1],
              IF side = "right" THEN k.small[2] ELSE -k.small[2])

(***************************************************************************)
(* Obstacles and the collision predicate.                                  *)
(***************************************************************************)
\* the grid cell <<row, col>> _check_collision computes for one obstacle
ObstacleCell(o) ==
    <<FloorDiv(TASK2_LENGTH - GRID_CELL_LENGTH * 5 - o.y, GRID_CELL_LENGTH),
      FloorDiv(o.x, GRID_CELL_LENGTH)>>

\* a _check_collision that wants every obstacle's cell met
check_collision_every_obstacle(check_positions, obs) ==
    \A o \in obs :
        \E i \in 1..Len(check_positions) :
            /\ check_positions[i][1] = ObstacleCell(o)[1]
            /\ check_positions[i][2] = ObstacleCell(o)[2]

\* _check_collision: some check position equals some obstacle's cell
check_collision(check_positions, obs) ==
    \E i \in 1..Len(check_positions) :
        \E o \in obs :
            /\ check_positions[i][1] = ObstacleCell(o)[1]
            /\ check_positions[i][2] = ObstacleCell(o)[2]

\* range(lo, hi) of Python as a sequence
Range(lo, hi) ==
    [i \in 1..(IF hi > lo THEN hi - lo ELSE 0) |-> lo + i - 1]

\* _get_collision_positions_forward looking one cell ahead instead of two
get_collision_positions_forward_near(cur) ==
    CASE cur.dir = "TOP" ->
           [i \in 1..3 |-> <<cur.row - 1, Range(cur.col - 1, cur.col + 2)[i]>>]
      [] cur.dir = "RIGHT" ->
           [i \in 1..3 |-> <<Range(cur.row - 1, cur.row + 2)[i], cur.col + 1>>]
      [] cur.dir = "BOTTOM" ->
           [i \in 1..3 |-> <<cur.row + 1, Range(cur.col - 1, cur.col + 2)[i]>>]
      [] cur.dir = "LEFT" ->
           [i \in 1..3 |-> <<Range(cur.row - 1, cur.row + 2)[i], cur.col - 1>>]

\* _get_collision_positions_forward
get_collision_positions_forward(cur) ==
    CASE cur.dir = "TOP" ->
           [i \in 1..3 |-> <<cur.row - 2, Range(cur.col - 1, cur.col + 2)[i]>>]
      [] cur.dir = "RIGHT" ->
           [i \in 1..3 |-> <<Range(cur.row - 1, cur.row + 2)[i], cur.col + 2>>]
      [] cur.dir = "BOTTOM" ->
           [i \in 1..3 |-> <<cur.row + 2, Range(cur.col - 1, cur.col + 2)[i]>>]
      [] cur.dir = "LEFT" ->
           [i \in 1..3 |-> <<Range(cur.row - 1, cur.row + 2)[i], cur.col - 2>>]

\* _get_collision_positions_backward
get_collision_positions_backward(cur) ==
    CASE cur.dir = "TOP" ->
           [i \in 1..3 |-> <<cur.row + 2, Range(cur.col - 1, cur.col + 2)[i]>>]
      [] cur.dir = "RIGHT" ->
           [i \in 1..3 |-> <<Range(cur.row - 1, cur.row + 2)[i], cur.col - 2>>]
      [] cur.dir = "BOTTOM" ->
           [i \in 1..3 |-> <<cur.row - 2, Range(cur.col - 1, cur.col + 2)[i]>>]
      [] cur.dir = "LEFT" ->
           [i \in 1..3 |-> <<Range(cur.row - 1, cur.row + 2)[i], cur.col + 2>>]

(***************************************************************************)
(* The motion primitives.  Each yields what the method returns (result),   *)
(* whether it reached _execute_movement (commit) and the pose it handed to *)
(* it (pos); blocked tells that _check_collision answered True.            *)
(***************************************************************************)
Rejected(cur, isBlocked) ==
    [result |-> -1, commit |-> FALSE, blocked |-> isBlocked, pos |-> cur]

\* _execute_movement: hands the pose to the robot and returns 1
execute_movement(new_position) ==
    [result |-> 1, commit |-> TRUE, blocked |-> FALSE, pos |-> new_position]

\* moveForward: collision check, then the move; no bounds check
moveForward(cur, obs) ==
    IF check_collision(get_collision_positions_forward(cur), obs)
    THEN Rejected(cur, TRUE)
    ELSE execute_movement(
           CASE cur.dir = "TOP" -> Pose(cur.row - 1, cur.col, cur.dir)
             [] cur.dir = "RIGHT" -> Pose(cur.row, cur.col + 1, cur.dir)
             [] cur.dir = "BOTTOM" -> Pose(cur.row + 1, cur.col, cur.dir)
             [] cur.dir = "LEFT" -> Pose(cur.row, cur.col - 1, cur.dir))

\* a candidate of moveBackward that, heading RIGHT, lies ahead
BackwardCandidateAheadWhenRight(cur) ==
    CASE cur.dir = "TOP" -> Pose(cur.row + 1, cur.col, cur.dir)
      [] cur.dir = "RIGHT" -> Pose(cur.row, cur.col + 1, cur.dir)
      [] cur.dir = "BOTTOM" -> Pose(cur.row - 1, cur.col, cur.dir)
      [] cur.dir = "LEFT" -> Pose(cur.row, cur.col + 1, cur.dir)

\* the candidate of moveBackward
BackwardCandidate(cur) ==
    CASE cur.dir = "TOP" -> Pose(cur.row + 1, cur.col, cur.dir)
      [] cur.dir = "RIGHT" -> Pose(cur.row, cur.col - 1, cur.dir)
      [] cur.dir = "BOTTOM" -> Pose(cur.row - 1, cur.col, cur.dir)
      [] cur.dir = "LEFT" -> Pose(cur.row, cur.col + 1, cur.dir)

\* the bounds test of moveBackward
BackwardInBounds(new_position) ==
    /\ 0 <= new_position.row * cell_size
    /\ new_position.row * cell_size < grid_length
    /\ 0 <= new_position.col * cell_size
    /\ new_position.col * cell_size < grid_width

\* moveBackward handing the pose to the robot before its bounds check
moveBackwardMoveFirst(cur, obs) ==
    IF check_collision(get_collision_positions_backward(cur), obs)
    THEN Rejected(cur, TRUE)
    ELSE IF BackwardInBounds(BackwardCandidate(cur))
         THEN execute_movement(BackwardCandidate(cur))
         ELSE [result |-> -1, commit |-> TRUE, blocked |-> FALSE,
               pos |-> BackwardCandidate(cur)]

\* moveBackward: collision check, then the bounds check, then the move
moveBackward(cur, obs) ==
    IF check_collision(get_collision_positions_backward(cur), obs)
    THEN Rejected(cur, TRUE)
    ELSE IF BackwardInBounds(BackwardCandidate(cur))
         THEN execute_movement(BackwardCandidate(cur))
         ELSE Rejected(cur, FALSE)

\* _get_turn_positions_and_destination: (turn offset, new direction)
get_turn_positions_and_destination(turn_type, cur, k) ==
    IF turn_type = "right"
    THEN [offset |-> TURN_MED_FORWARD("right", cur.dir, k),
          new_direction |->
              CASE cur.dir = "TOP" -> "RIGHT"
                [] cur.dir = "RIGHT" -> "BOTTOM"
                [] cur.dir = "BOTTOM" -> "LEFT"
                [] cur.dir = "LEFT" -> "TOP"]
    ELSE [offset |-> TURN_MED_FORWARD("left", cur.dir, k),
          new_direction |->
              CASE cur.dir = "TOP" -> "LEFT"
                [] cur.dir = "RIGHT" -> "TOP"
                [] cur.dir = "BOTTOM" -> "RIGHT"
                [] cur.dir = "LEFT" -> "BOTTOM"]

\* the pose turnRight and turnLeft compute from a turn offset
TurnCandidate(cur, t) ==
    Pose(cur.row - FloorDiv(t.offset[2], 10),
         cur.col + FloorDiv(t.offset[1], 10), t.new_direction)

\* turnRight refusing a destination cell that holds an obstacle
turnRightChecked(cur, obs, k) ==
    IF check_collision(
         <<<<TurnCandidate(cur, get_turn_positions_and_destination("right", cur, k)).row,
             TurnCandidate(cur, get_turn_positions_and_destination("right", cur, k)).col>>>>,
         obs)
    THEN Rejected(cur, TRUE)
    ELSE execute_movement(
           TurnCandidate(cur, get_turn_positions_and_destination("right", cur, k)))

\* turnRight: no collision check, no bounds check
turnRight(cur, obs, k) ==
    execute_movement(
        TurnCandidate(cur, get_turn_positions_and_destination("right", cur, k)))

\* turnLeft: no collision check, no bounds check
turnLeft(cur, obs, k) ==
    execute_movement(
        TurnCandidate(cur, get_turn_positions_and_destination("left", cur, k)))

\* reverseTurnRight is turnLeft
reverseTurnRight(cur, obs, k) ==
    turnLeft(cur, obs, k)

\* reverseTurnLeft is turnRight
reverseTurnLeft(cur, obs, k) ==
    turnRight(cur, obs, k)

\* the entry of diagonal_constants for (move_type, heading)
diagonal_constants(move_type, d, k) ==
    CASE move_type = "northeast" -> TURN_SMALL("right", "forward", d, k)
      [] move_type = "northwest" -> TURN_SMALL("left", "forward", d, k)
      [] move_type = "southeast" -> TURN_SMALL("right", "reverse", d, k)
      [] move_type = "southwest" -> TURN_SMALL("left", "reverse", d, k)

\* _execute_diagonal_move: the heading is kept; no collision or bounds check
execute_diagonal_move(move_type, cur, obs, k) ==
    execute_movement(
        Pose(cur.row - FloorDiv(diagonal_constants(move_type, cur.dir, k)[2], 10),
             cur.col + FloorDiv(diagonal_constants(move_type, cur.dir, k)[1], 10),
             cur.dir))

\* the ten primitives by name
Primitives ==
    {"moveForward", "moveBackward", "turnRight", "turnLeft",
     "reverseTurnRight", "reverseTurnLeft", "moveNorthEast", "moveNorthWest",
     "moveSouthEast", "moveSouthWest"}

\* what primitive op does from pose cur
Apply(op, cur, obs, k) ==
    CASE op = "moveForward" -> moveForward(cur, obs)
      [] op = "moveBackward" -> moveBackward(cur, obs)
      [] op = "turnRight" -> turnRight(cur, obs, k)
      [] op = "turnLeft" -> turnLeft(cur, obs, k)
      [] op = "reverseTurnRight" -> reverseTurnRight(cur, obs, k)
      [] op = "reverseTurnLeft" -> reverseTurnLeft(cur, obs, k)
      [] op = "moveNorthEast" -> execute_diagonal_move("northeast", cur, obs, k)
      [] op = "moveNorthWest" -> execute_diagonal_move("northwest", cur, obs, k)
      [] op = "moveSouthEast" -> execute_diagonal_move("southeast", cur, obs, k)
      [] op = "moveSouthWest" -> execute_diagonal_move("southwest", cur, obs, k)

\* the robot's position after a primitive's outcome: _execute_movement's
\* self.bot.set_position_task2 when it was reached, else untouched
Commit(b, out) ==
    IF out.commit
    THEN set_position_task2(out.pos.row, out.pos.col, out.pos.dir)
    ELSE b

(***************************************************************************)
(* The avoidance choreographies, statement by statement.  An instruction   *)
(* is a primitive to attempt (or "none") and the amount added to           *)
(* movement["forward"] right after it; "range" evaluates                   *)
(* range(movement["forward"]) and "for" is one pass of that loop.          *)
(***************************************************************************)
Instr(op, delta) == [op |-> op, delta |-> delta]

\* left with a wrong last turn
leftWrongLastTurn ==
    << Instr("moveBackward", -1), Instr("moveBackward", -1),
       Instr("moveBackward", -1),
       Instr("turnLeft", 0), Instr("turnRight", 0),
       Instr("turnRight", 0), Instr("turnRight", 0),
       Instr("none", 10) >>

\* left: 3 x (moveBackward, -1), the turn sequence, +10
left ==
    << Instr("moveBackward", -1), Instr("moveBackward", -1),
       Instr("moveBackward", -1),
       Instr("turnLeft", 0), Instr("turnRight", 0),
       Instr("turnRight", 0), Instr("turnLeft", 0),
       Instr("none", 10) >>

\* right: 3 x (moveBackward, -1), the mirrored turn sequence, +10
right ==
    << Instr("moveBackward", -1), Instr("moveBackward", -1),
       Instr("moveBackward", -1),
       Instr("turnRight", 0), Instr("turnLeft", 0),
       Instr("turnLeft", 0), Instr("turnRight", 0),
       Instr("none", 10) >>

\* secondleft with one closing turn only
secondleftOneClosingTurn ==
    << Instr("moveBackward", -1), Instr("moveBackward", -1),
       Instr("none", -1),
       Instr("turnLeft", 0), Instr("turnRight", 0), Instr("turnRight", 0),
       Instr("moveForward", 0), Instr("moveForward", 0),
       Instr("moveForward", 0), Instr("moveForward", 0),
       Instr("moveForward", 0),
       Instr("turnRight", 0),
       Instr("range", 0), Instr("for", 0),
       Instr("turnRight", 0) >>

\* secondleft: 2 x (moveBackward, -1), -1, three turns, 5 x moveForward, a
\* turn, the range(movement["forward"]) loop of moveForward, two turns
secondleft ==
    << Instr("moveBackward", -1), Instr("moveBackward", -1),
       Instr("none", -1),
       Instr("turnLeft", 0), Instr("turnRight", 0), Instr("turnRight", 0),
       Instr("moveForward", 0), Instr("moveForward", 0),
       Instr("moveForward", 0), Instr("moveForward", 0),
       Instr("moveForward", 0),
       Instr("turnRight", 0),
       Instr("range", 0), Instr("for", 0),
       Instr("turnRight", 0), Instr("turnLeft", 0) >>

\* secondright: secondleft with the turns mirrored
secondright ==
    << Instr("moveBackward", -1), Instr("moveBackward", -1),
       Instr("none", -1),
       Instr("turnRight", 0), Instr("turnLeft", 0), Instr("turnLeft", 0),
       Instr("moveForward", 0), Instr("moveForward", 0),
       Instr("moveForward", 0), Instr("moveForward", 0),
       Instr("moveForward", 0),
       Instr("turnLeft", 0),
       Instr("range", 0), Instr("for", 0),
       Instr("turnLeft", 0), Instr("turnRight", 0) >>

\* _execute_obstacle_maneuver: left for "L", right for "R", else nothing
execute_obstacle_maneuver(obstacle_direction) ==
    IF obstacle_direction = "L" THEN left
    ELSE IF obstacle_direction = "R" THEN right
    ELSE << >>

\* _execute_second_obstacle_maneuver: secondleft for "L", secondright for
\* "R", else nothing
execute_second_obstacle_maneuver(obstacle_direction) ==
    IF obstacle_direction = "L" THEN secondleft
    ELSE IF obstacle_direction = "R" THEN secondright
    ELSE << >>

\* the choreography task2Algo runs in phase ph
Choreography(ph, hints) ==
    IF ph = "avoid1"
    THEN execute_obstacle_maneuver(hints[1])
    ELSE execute_second_obstacle_maneuver(hints[2])

\* task2Algo without its second scanning loop
NextPhaseNoSecondScan(ph) ==
    CASE ph = "scan1" -> "avoid1"
      [] ph = "avoid1" -> "avoid2"
      [] ph = "scan2" -> "avoid2"
      [] ph = "avoid2" -> "done"

\* the phase task2Algo goes on with after phase ph
NextPhase(ph) ==
    CASE ph = "scan1" -> "avoid1"
      [] ph = "avoid1" -> "scan2"
      [] ph = "scan2" -> "avoid2"
      [] ph = "avoid2" -> "done"

\* one pass too many
RangeLenOneMore(n) ==
    IF n > 0 THEN n + 1 ELSE 0

\* the number of passes of "for _ in range(n)"
RangeLen(n) ==
    IF n > 0 THEN n ELSE 0

(***************************************************************************)
(* Inputs.                                                                 *)
(***************************************************************************)
\* an obstacle whose cell is (row, col), dx and dy world units inside it
ObstacleAt(r, c, dx, dy) ==
    [x |-> c * GRID_CELL_LENGTH + dx,
     y |-> TASK2_LENGTH - GRID_CELL_LENGTH * 5 - r * GRID_CELL_LENGTH - dy]

\* the obstacle sets of the hand-driven specification
DrivenObstacleSets ==
    { {ObstacleAt(8, 10, 5, 5)},
      {ObstacleAt(8, 10, 0, 9), ObstacleAt(28, 7, 9, 0), ObstacleAt(16, 7, 3, 4)} }

\* the obstacle sets of the runs: those above, none at all, and an obstacle
\* two cells ahead of a robot that stands on the arena's last row
ObstacleSets ==
    DrivenObstacleSets \cup { {}, {ObstacleAt(37, 7, 2, 2)} }

\* the side hints: "L", "R", and a value that is neither
Hints == {"L", "R", "X"}

AllPoses ==
    {Pose(r, c, d) : r \in 0..(Rows - 1), c \in 0..(Cols - 1), d \in Direction}

\* where the runs of task2Algo start
RunStartPoses ==
    { Pose(10, 10, "TOP"), Pose(12, 10, "TOP"), Pose(37, 7, "TOP"),
      Pose(8, 5, "RIGHT"), Pose(8, 14, "LEFT"), Pose(4, 10, "BOTTOM"),
      Pose(1, 3, "TOP"), Pose(39, 7, "TOP") }

\* What is noted of a run: the pose task2Algo was called at (start); where
\* the current (or latest) scan began and the value of movement["forward"]
\* then (scanFrom, carried); the pose and the value of movement["forward"]
\* when the latest choreography was called (pose, credit).
NoEpisode ==
    [start |-> Pose(0, 0, "TOP"), scanFrom |-> Pose(0, 0, "TOP"), carried |-> 0,
     pose |-> Pose(0, 0, "TOP"), credit |-> 0]

\* the state when runTask2Simulation has set up the robot and drawn it once
InitWith(poses, obstacleSets, hintPairs, arcs) ==
    /\ \E p \in poses :
          /\ bot = set_position_task2(p.row, p.col, p.dir)
          /\ currentPos = updatingTask2Display(set_position_task2(p.row, p.col, p.dir))
    /\ obstacles \in obstacleSets
    /\ direction \in hintPairs
    /\ arc \in arcs
    /\ movement = 0
    /\ pc = "idle"
    /\ step = 0
    /\ remaining = 0
    /\ pending = 0
    /\ lastOps = << >>
    /\ episode = NoEpisode
    /\ script = << >>
    /\ phaseLog = << >>
    /\ is_executing = FALSE
    /\ commands = << >>
    /\ queue = << >>
    /\ batch = << >>
    /\ posted = 0
    /\ trail = << >>
    /\ NoLink

(***************************************************************************)
(* The event loop of runTask2Simulation.                                   *)
(***************************************************************************)
\* _handle_movement_keys: the primitive the pressed arrow keys select
handle_movement_keys(keys) ==
    IF "UP" \in keys
    THEN IF "RIGHT" \in keys THEN "turnRight"
         ELSE IF "LEFT" \in keys THEN "turnLeft"
         ELSE "moveForward"
    ELSE IF "DOWN" \in keys
    THEN IF "RIGHT" \in keys THEN "reverseTurnRight"
         ELSE IF "LEFT" \in keys THEN "reverseTurnLeft"
         ELSE "moveBackward"
    ELSE "none"

\* _handle_diagonal_keys: the primitive the event's key selects
handle_diagonal_keys(key) ==
    CASE key = "e" -> "moveNorthEast"
      [] key = "q" -> "moveNorthWest"
      [] key = "d" -> "moveSouthEast"
      [] key = "a" -> "moveSouthWest"
      [] OTHER -> "none"

\* a KEYDOWN event: the arrow keys held down and the key of the event
KeyInput(keys, key) == [keys |-> keys, key |-> key]

\* KEYDOWN events that select exactly one primitive
SingleKeyInputs ==
    { KeyInput({"UP"}, "UP"), KeyInput({"DOWN"}, "DOWN"),
      KeyInput({"UP", "RIGHT"}, "RIGHT"), KeyInput({"UP", "LEFT"}, "LEFT"),
      KeyInput({"DOWN", "RIGHT"}, "RIGHT"), KeyInput({"DOWN", "LEFT"}, "LEFT"),
      KeyInput({}, "e"), KeyInput({}, "q"), KeyInput({}, "d"), KeyInput({}, "a") }

\* the primitives one KEYDOWN event attempts, in order
KeyOps(in) ==
    (IF handle_movement_keys(in.keys) = "none"
     THEN << >> ELSE <<handle_movement_keys(in.keys)>>)
    \o (IF handle_diagonal_keys(in.key) = "none"
        THEN << >> ELSE <<handle_diagonal_keys(in.key)>>)

\* the outcomes of the primitives ops, all computed from the pose cur
Outcomes(ops, cur, obs, k) ==
    [i \in 1..Len(ops) |-> Apply(ops[i], cur, obs, k)]

\* the robot after these outcomes, in order
RECURSIVE CommitAll(_, _)
CommitAll(b, outs) ==
    IF outs = << >> THEN b
    ELSE CommitAll(Commit(b, Head(outs)), Tail(outs))

\* what the latest step attempted
OpLog(ops, outs) ==
    [i \in 1..Len(ops) |->
        [op |-> ops[i], result |-> outs[i].result, blocked |-> outs[i].blocked]]

\* The KEYDOWN branch of the event loop for one event.  When the event is
\* the last of its batch (last), the loop's next pass follows:
\* updatingTask2Display recomputes self.currentPos.
KeyDown(in, last) ==
    /\ pc = "idle"
    /\ IF last THEN TRUE ELSE pending < MaxExtraEvents
    /\ LET ops == KeyOps(in)
           outs == Outcomes(ops, currentPos, obstacles, arc)
           b == CommitAll(bot, outs)
           p == updatingTask2Display(b)
       IN  /\ InWindow(p)
           /\ bot' = b
           /\ IF last
              THEN currentPos' = p /\ pending' = 0
              ELSE currentPos' = currentPos /\ pending' = pending + 1
           /\ lastOps' = OpLog(ops, outs)
    /\ UNCHANGED <<obstacles, direction, arc, movement, pc, step, remaining,
                   episode, script, phaseLog>>
    /\ UNCHANGED simState

\* _handle_mouse_clicks on START: task2Algo begins with movement = {"forward": 0}
ClickStart ==
    /\ pc = "idle"
    /\ pc' = "scan1"
    /\ movement' = 0
    /\ step' = 0
    /\ remaining' = 0
    /\ lastOps' = << >>
    /\ episode' = [NoEpisode EXCEPT !.start = currentPos, !.scanFrom = currentPos]
    /\ script' = << >>
    /\ phaseLog' = <<"scan1">>
    /\ UNCHANGED <<bot, currentPos, obstacles, direction, arc, pending>>
    /\ UNCHANGED simState

(***************************************************************************)
(* task2Algo.                                                              *)
(***************************************************************************)
\* a scanning loop that keeps its step count out of movement["forward"]
scan_pass_uncounted(m, result) ==
    m

\* movement["forward"] after one pass of a scanning loop whose moveForward
\* returned result
scan_pass(m, result) ==
    IF result = 1 THEN m + 1 ELSE m

\* One pass of a "while True" scanning loop: moveForward; on 1 count the
\* step and redraw, on -1 leave the loop for the maneuver.
ScanStep ==
    /\ pc \in {"scan1", "scan2"}
    /\ LET out == moveForward(currentPos, obstacles)
       IN  /\ InWindow(out.pos)
           /\ bot' = Commit(bot, out)
           /\ lastOps' = OpLog(<<"moveForward">>, <<out>>)
           /\ movement' = scan_pass(movement, out.result)
           /\ IF out.result = 1
              THEN /\ currentPos' = updatingTask2Display(bot')
                   /\ UNCHANGED <<pc, step, episode, script, phaseLog>>
              ELSE /\ pc' = NextPhase(pc)
                   /\ step' = 1
                   /\ episode' = [episode EXCEPT !.pose = currentPos,
                                                 !.credit = movement]
                   /\ script' = << >>
                   /\ phaseLog' = Append(phaseLog, NextPhase(pc))
                   /\ UNCHANGED currentPos
    /\ UNCHANGED <<obstacles, direction, arc, remaining, pending>>
    /\ UNCHANGED simState

\* a choreography that debits only for a backup that was committed
credit_update_if_committed(m, delta, result) ==
    IF result = 1 THEN m + delta ELSE m

\* movement["forward"] after a statement pair "self.moveBackward(...);
\* movement["forward"] -= 1": the return value is not looked at
credit_update(m, delta, result) ==
    m + delta

\* One statement of the active choreography; after the last one (or at once
\* when the hint selects no choreography) task2Algo goes on.
ManeuverStep ==
    /\ pc \in {"avoid1", "avoid2"}
    /\ LET prog == Choreography(pc, direction)
       IN  IF step > Len(prog)
           THEN /\ pc' = NextPhase(pc)
                /\ step' = 0
                /\ phaseLog' = Append(phaseLog, NextPhase(pc))
                /\ lastOps' = << >>
                /\ episode' = [episode EXCEPT !.scanFrom = currentPos,
                                              !.carried = movement]
                /\ UNCHANGED <<bot, currentPos, movement, remaining, script>>
           ELSE LET ins == prog[step]
                    op == IF ins.op = "for" THEN "moveForward" ELSE ins.op
                IN  CASE ins.op = "none" ->
                           /\ movement' = movement + ins.delta
                           /\ step' = step + 1
                           /\ lastOps' = << >>
                           /\ UNCHANGED <<bot, currentPos, remaining, script,
                                          pc, phaseLog, episode>>
                      [] ins.op = "range" ->
                           /\ remaining' = RangeLen(movement)
                           /\ step' = step + 1
                           /\ lastOps' = << >>
                           /\ UNCHANGED <<bot, currentPos, movement, script,
                                          pc, phaseLog, episode>>
                      [] ins.op = "for" /\ remaining = 0 ->
                           /\ step' = step + 1
                           /\ lastOps' = << >>
                           /\ UNCHANGED <<bot, currentPos, movement, remaining,
                                          script, pc, phaseLog, episode>>
                      [] OTHER ->
                           LET out == Apply(op, currentPos, obstacles, arc)
                           IN
                           /\ bot' = Commit(bot, out)
                           /\ InWindow(updatingTask2Display(bot'))
                           /\ currentPos' = updatingTask2Display(bot')
                           /\ movement' = credit_update(movement, ins.delta, out.result)
                           /\ lastOps' = OpLog(<<op>>, <<out>>)
                           /\ script' = Append(script, op)
                           /\ IF ins.op = "for"
                              THEN remaining' = remaining - 1 /\ step' = step
                              ELSE remaining' = remaining /\ step' = step + 1
                           /\ UNCHANGED <<pc, phaseLog, episode>>
    /\ UNCHANGED <<obstacles, direction, arc, pending>>
    /\ UNCHANGED simState

(***************************************************************************)
(* Specifications.                                                         *)
(***************************************************************************)
\* driving by hand: one KEYDOWN event per pass of the event loop
Init ==
    InitWith(AllPoses, DrivenObstacleSets, {<<"L", "R">>}, {MedArc})

Next ==
    \E in \in SingleKeyInputs : KeyDown(in, TRUE)

Spec == Init /\ [][Next]_vars

\* runs of task2Algo from the START button
RunInit ==
    InitWith(RunStartPoses, ObstacleSets, Hints \X Hints, ArcChoices)

RunNext ==
    \/ ClickStart
    \/ ScanStep
    \/ ManeuverStep

RunSpec == RunInit /\ [][RunNext]_vars

\* several KEYDOWN events handed over by one pygame.event.get(): only after
\* the last of them the loop calls updatingTask2Display again
BatchPoses ==
    { Pose(10, 10, "TOP"), Pose(20, 7, "RIGHT") }

\* the KEYDOWN events of a batch: those that select one primitive, and the
\* key e pressed while UP is held, which selects two
BatchKeyInputs ==
    { KeyInput({"UP"}, "UP"), KeyInput({"DOWN"}, "DOWN"), KeyInput({}, "e"),
      KeyInput({"UP"}, "e") }

BatchInit ==
    InitWith(BatchPoses, { {ObstacleAt(8, 10, 5, 5)} }, {<<"L", "R">>},
             {MedArc})

BatchNext ==
    \E in \in BatchKeyInputs, last \in BOOLEAN : KeyDown(in, last)

BatchSpec == BatchInit /\ [][BatchNext]_vars

(***************************************************************************)
(* A heading the kinematic tables have no entry for.                       *)
(***************************************************************************)
NoHeading == "NONE"

\* an outcome with the note whether the call raised instead of returning
WithRaised(out, r) ==
    [result |-> out.result, commit |-> out.commit, blocked |-> out.blocked,
     pos |-> out.pos, raised |-> r]

\* A primitive of the Task-2 engine called with a heading that is no key of
\* its dictionaries.  moveForward and moveBackward: the collision positions
\* default to [], direction_moves.get gives None and the method returns -1.
\* The turns: _get_turn_positions_and_destination returns the None of
\* dict.get, and unpacking it into (turn_offset, new_direction) raises.
\* The diagonal moves: diagonal_constants.get gives None, return -1.
missing_entry(op, cur) ==
    IF op \in {"turnRight", "turnLeft", "reverseTurnRight", "reverseTurnLeft"}
    THEN [result |-> 0, commit |-> FALSE, blocked |-> FALSE, pos |-> cur,
          raised |-> TRUE]
    ELSE WithRaised(Rejected(cur, FALSE), FALSE)

\* a primitive of the Task-2 engine from any heading
ApplyAny(op, cur, obs, k) ==
    IF cur.dir \in Direction
    THEN WithRaised(Apply(op, cur, obs, k), FALSE)
    ELSE missing_entry(op, cur)

(***************************************************************************)
(* simulation.py: the primitives.  They are bounds-checked, not            *)
(* collision-checked, and return nothing (result 0 below).                 *)
(***************************************************************************)
\* constants.GRID_LENGTH: the arena of simulation.py is square, 20 x 20 cells
GRID_LENGTH == 200

\* constants.SCALING_FACTOR
SCALING_FACTOR == 4

gridSize == GRID_LENGTH * SCALING_FACTOR

cellSize == GRID_CELL_LENGTH * SCALING_FACTOR

SimRows == GRID_LENGTH \div GRID_CELL_LENGTH

\* Robot.set_position(row, col, direction): stores the pose in world units,
\* the inverse of the read-back in updatingDisplay
set_position(r, c, d) ==
    [x |-> GRID_LENGTH - GRID_CELL_LENGTH - r * 10, y |-> c * 10,
     direction |-> d]

\* updatingDisplay: self.currentPos from self.bot.get_current_pos()
updatingDisplay(b) ==
    Pose(FloorDiv(GRID_LENGTH - GRID_CELL_LENGTH - b.x, 10),
         FloorDiv(b.y, 10), b.direction)

\* a _checkBounds that lets the cell just past the last one through
checkBoundsUpToGridSize(new_x, new_y) ==
    /\ 0 <= new_x * cellSize /\ new_x * cellSize <= gridSize
    /\ 0 <= new_y * cellSize /\ new_y * cellSize <= gridSize

\* _checkBounds
checkBounds(new_x, new_y) ==
    /\ 0 <= new_x * cellSize /\ new_x * cellSize < gridSize
    /\ 0 <= new_y * cellSize /\ new_y * cellSize < gridSize

\* a primitive of simulation.py that left the robot alone
NoMove(cur) ==
    [result |-> 0, commit |-> FALSE, blocked |-> FALSE, pos |-> cur,
     raised |-> FALSE]

\* _moveRobotTo: set_position when the cell is inside the grid
moveRobotTo(new_x, new_y, d, cur) ==
    IF checkBounds(new_x, new_y)
    THEN [result |-> 0, commit |-> TRUE, blocked |-> FALSE,
          pos |-> Pose(new_x, new_y, d), raised |-> FALSE]
    ELSE NoMove(cur)

\* a moveForward of simulation.py with steps = 2
sim_moveForward_two_steps(cur) ==
    CASE cur.dir = "TOP" -> moveRobotTo(cur.row - 2, cur.col, cur.dir, cur)
      [] cur.dir = "RIGHT" -> moveRobotTo(cur.row, cur.col + 2, cur.dir, cur)
      [] cur.dir = "BOTTOM" -> moveRobotTo(cur.row + 2, cur.col, cur.dir, cur)
      [] cur.dir = "LEFT" -> moveRobotTo(cur.row, cur.col - 2, cur.dir, cur)
      [] OTHER -> moveRobotTo(cur.row, cur.col, cur.dir, cur)

\* moveForward of simulation.py; direction_moves.get defaults to the
\* present cell
sim_moveForward(cur) ==
    CASE cur.dir = "TOP" -> moveRobotTo(cur.row - 1, cur.col, cur.dir, cur)
      [] cur.dir = "RIGHT" -> moveRobotTo(cur.row, cur.col + 1, cur.dir, cur)
      [] cur.dir = "BOTTOM" -> moveRobotTo(cur.row + 1, cur.col, cur.dir, cur)
      [] cur.dir = "LEFT" -> moveRobotTo(cur.row, cur.col - 1, cur.dir, cur)
      [] OTHER -> moveRobotTo(cur.row, cur.col, cur.dir, cur)

\* moveBackward of simulation.py
sim_moveBackward(cur) ==
    CASE cur.dir = "TOP" -> moveRobotTo(cur.row + 1, cur.col, cur.dir, cur)
      [] cur.dir = "RIGHT" -> moveRobotTo(cur.row, cur.col - 1, cur.dir, cur)
      [] cur.dir = "BOTTOM" -> moveRobotTo(cur.row - 1, cur.col, cur.dir, cur)
      [] cur.dir = "LEFT" -> moveRobotTo(cur.row, cur.col + 1, cur.dir, cur)
      [] OTHER -> moveRobotTo(cur.row, cur.col, cur.dir, cur)

\* constants.TURN_MED_<RIGHT|LEFT>_<heading>_REVERSE: the arc driven backwards
TURN_MED_REVERSE(side, d, k) ==
    ArcOffset(d, -k.med[1], IF side = "right" THEN k.med[2] ELSE -k.med[2])

\* a turnRight whose table sends LEFT to BOTTOM
turnRight_left_to_bottom(d) ==
    CASE d = "TOP" -> "RIGHT"
      [] d = "RIGHT" -> "BOTTOM"
      [] d = "BOTTOM" -> "LEFT"
      [] d = "LEFT" -> "BOTTOM"

\* new_directions of turnRight (simulation.py)
turnRight_new_directions(d) ==
    CASE d = "TOP" -> "RIGHT"
      [] d = "RIGHT" -> "BOTTOM"
      [] d = "BOTTOM" -> "LEFT"
      [] d = "LEFT" -> "TOP"

\* new_directions of turnLeft (simulation.py)
turnLeft_new_directions(d) ==
    CASE d = "TOP" -> "LEFT"
      [] d = "RIGHT" -> "TOP"
      [] d = "BOTTOM" -> "RIGHT"
      [] d = "LEFT" -> "BOTTOM"

\* a reverseTurnRight whose heading follows turnRight
reverseTurnRight_like_turnRight(d) ==
    turnRight_new_directions(d)

\* new_directions of reverseTurnRight (simulation.py)
reverseTurnRight_new_directions(d) ==
    CASE d = "TOP" -> "LEFT"
      [] d = "RIGHT" -> "TOP"
      [] d = "BOTTOM" -> "RIGHT"
      [] d = "LEFT" -> "BOTTOM"

\* new_directions of reverseTurnLeft (simulation.py)
reverseTurnLeft_new_directions(d) ==
    CASE d = "TOP" -> "RIGHT"
      [] d = "RIGHT" -> "BOTTOM"
      [] d = "BOTTOM" -> "LEFT"
      [] d = "LEFT" -> "TOP"

\* _performTurn: nothing without a constant for the heading; else the
\* candidate, committed with the new heading when it is inside the grid
performTurn(offset, new_direction, cur) ==
    IF checkBounds(cur.row - FloorDiv(offset[2], 10),
                   cur.col + FloorDiv(offset[1], 10))
    THEN [result |-> 0, commit |-> TRUE, blocked |-> FALSE,
          pos |-> Pose(cur.row - FloorDiv(offset[2], 10),
                       cur.col + FloorDiv(offset[1], 10), new_direction),
          raised |-> FALSE]
    ELSE NoMove(cur)

\* _performSlantMove: the heading is kept
performSlantMove(offset, cur) ==
    moveRobotTo(cur.row - FloorDiv(offset[2], 10),
                cur.col + FloorDiv(offset[1], 10), cur.dir, cur)

\* what primitive op of simulation.py does from pose cur; the turns and the
\* slant moves return at once when the heading is no key of their table
SimApply(op, cur, k) ==
    IF op = "moveForward" THEN sim_moveForward(cur)
    ELSE IF op = "moveBackward" THEN sim_moveBackward(cur)
    ELSE IF cur.dir \notin Direction THEN NoMove(cur)
    ELSE CASE op = "turnRight" ->
                performTurn(TURN_MED_FORWARD("right", cur.dir, k),
                            turnRight_new_directions(cur.dir), cur)
           [] op = "turnLeft" ->
                performTurn(TURN_MED_FORWARD("left", cur.dir, k),
                            turnLeft_new_directions(cur.dir), cur)
           [] op = "reverseTurnRight" ->
                performTurn(TURN_MED_REVERSE("right", cur.dir, k),
                            reverseTurnRight_new_directions(cur.dir), cur)
           [] op = "reverseTurnLeft" ->
                performTurn(TURN_MED_REVERSE("left", cur.dir, k),
                            reverseTurnLeft_new_directions(cur.dir), cur)
           [] op = "moveNorthEast" ->
                performSlantMove(TURN_SMALL("right", "forward", cur.dir, k), cur)
           [] op = "moveNorthWest" ->
                performSlantMove(TURN_SMALL("left", "forward", cur.dir, k), cur)
           [] op = "moveSouthEast" ->
                performSlantMove(TURN_SMALL("right", "reverse", cur.dir, k), cur)
           [] op = "moveSouthWest" ->
                performSlantMove(TURN_SMALL("left", "reverse", cur.dir, k), cur)

\* the robot of simulation.py after a primitive's outcome
SimCommit(b, out) ==
    IF out.commit
    THEN set_position(out.pos.row, out.pos.col, out.pos.dir)
    ELSE b

(***************************************************************************)
(* Probing the primitives of both engines: short sequences of primitives   *)
(* from chosen poses, with the outcome of every attempt kept in trail.     *)
(***************************************************************************)
\* any sequence of primitives up to this length is driven
MaxProbeLen == 2

\* and one primitive repeated up to this many times
MaxRepeat == 4

\* whether primitive op may follow the attempts in tr
ProbeAllowed(tr, op) ==
    \/ Len(tr) < MaxProbeLen
    \/ (Len(tr) < MaxRepeat /\ \A i \in 1..Len(tr) : tr[i].op = op)

\* the cells the Task-2 engine is probed from: next to the obstacles and on
\* the edges of its arena
ProbeCells ==
    { <<10, 10>>, <<7, 10>>, <<6, 10>>, <<11, 8>>, <<0, 7>>, <<39, 7>>,
      <<20, 0>>, <<20, 14>> }

\* the cells simulation.py is probed from: the corners, the edges and the
\* middle of its arena
SimProbeCells ==
    { <<10, 10>>, <<0, 0>>, <<0, 19>>, <<19, 0>>, <<19, 19>>, <<1, 10>>,
      <<18, 10>>, <<10, 1>> }

\* one attempt as kept in trail: the primitive, the pose it was called at,
\* the pose the display reads back from the robot after it, whether it
\* committed a pose, what it returned (0: nothing) and whether it raised
Attempt(op, cur, out, after) ==
    [op |-> op, from |-> cur, to |-> after, commit |-> out.commit,
     result |-> out.result, raised |-> out.raised]

ProbeInit ==
    /\ \/ /\ pc = "idle"
          /\ \E cell \in ProbeCells, d \in Direction \cup {NoHeading} :
                /\ bot = set_position_task2(cell[1], cell[2], d)
                /\ currentPos = updatingTask2Display(bot)
          /\ obstacles \in DrivenObstacleSets \cup { {} }
       \/ /\ pc = "sim_idle"
          /\ \E cell \in SimProbeCells, d \in Direction \cup {NoHeading} :
                /\ bot = set_position(cell[1], cell[2], d)
                /\ currentPos = updatingDisplay(bot)
          /\ obstacles = {}
    /\ direction = <<"L", "R">>
    /\ arc = MedArc
    /\ movement = 0
    /\ step = 0
    /\ remaining = 0
    /\ pending = 0
    /\ lastOps = << >>
    /\ episode = [NoEpisode EXCEPT !.start = currentPos]
    /\ script = << >>
    /\ phaseLog = << >>
    /\ is_executing = FALSE
    /\ commands = << >>
    /\ queue = << >>
    /\ batch = << >>
    /\ posted = 0
    /\ trail = << >>
    /\ NoLink

\* One KEYDOWN event of the Task-2 engine's loop that selects one primitive,
\* and the loop's next updatingTask2Display.  A primitive that raises ends
\* the program: nothing catches it.
ProbeKeyDown(in) ==
    /\ pc = "idle"
    /\ Len(KeyOps(in)) = 1
    /\ ProbeAllowed(trail, KeyOps(in)[1])
    /\ LET op == KeyOps(in)[1]
           out == ApplyAny(op, currentPos, obstacles, arc)
       IN  /\ bot' = Commit(bot, out)
           /\ currentPos' = updatingTask2Display(bot')
           /\ pc' = IF out.raised THEN "crashed" ELSE pc
           /\ lastOps' = OpLog(<<op>>, <<out>>)
           /\ trail' = Append(trail, Attempt(op, currentPos, out, currentPos'))
    /\ UNCHANGED <<obstacles, direction, arc, movement, step, remaining,
                   pending, episode, script, phaseLog, is_executing, commands,
                   queue, batch, posted>>
    /\ UNCHANGED linkState

\* A click on one of the ten movement buttons of simulation.py
\* (_handleMouseClick, movement area; movement) and the loop's next
\* updatingDisplay.
SimClickMovement(op) ==
    /\ pc = "sim_idle"
    /\ ~is_executing
    /\ ProbeAllowed(trail, op)
    /\ LET out == SimApply(op, currentPos, arc)
       IN  /\ bot' = SimCommit(bot, out)
           /\ currentPos' = updatingDisplay(bot')
           /\ lastOps' = OpLog(<<op>>, <<out>>)
           /\ trail' = Append(trail, Attempt(op, currentPos, out, currentPos'))
    /\ UNCHANGED <<obstacles, direction, arc, movement, pc, step, remaining,
                   pending, episode, script, phaseLog, is_executing, commands,
                   queue, batch, posted>>
    /\ UNCHANGED linkState

ProbeNext ==
    \/ \E in \in SingleKeyInputs : ProbeKeyDown(in)
    \/ \E op \in Primitives : SimClickMovement(op)

ProbeSpec == ProbeInit /\ [][ProbeNext]_vars

(***************************************************************************)
(* simulation.py: the START button runs the planned command list inside    *)
(* the click handler, polling the event queue before every command.        *)
(***************************************************************************)
\* how many events are posted to the queue in one behaviour
MaxPosted == 3

\* the events posted: the ESC key, clicks on START and on RESET, the UP and
\* DOWN keys
SimEvents == {"ESC", "START", "RESET", "UP", "DOWN"}

\* commands as plan_path leaves them in self.bot.hamiltonian.commands
StraightCommand(dist) == [kind |-> "straight", dist |-> dist, op |-> "none"]

TurnCommand(op) == [kind |-> "turn", dist |-> 0, op |-> op]

ScanCommand == [kind |-> "scan", dist |-> 0, op |-> "none"]

\* a command whose execution raises (a StraightCommand without a number as
\* its dist)
RaisingCommand == [kind |-> "raises", dist |-> 0, op |-> "none"]

\* the command lists driven: straight runs of several steps forward and
\* backward (dist // 10 steps: -15 gives two), turns, a slant move, a scan,
\* a turn whose flags select no action, a command that raises, and the
\* empty list
PlannedCommandLists ==
    { <<StraightCommand(20), TurnCommand("turnRight"), ScanCommand,
        StraightCommand(-15)>>,
      <<TurnCommand("moveNorthEast"), TurnCommand("none"),
        StraightCommand(30)>>,
      <<StraightCommand(10), RaisingCommand, StraightCommand(10)>>,
      << >> }

\* the poses simulation.py is started from: the pose of reset, the middle of
\* the grid, and the upper edge
ExecStartPoses ==
    { Pose(18, 1, "TOP"), Pose(10, 10, "RIGHT"), Pose(0, 5, "TOP") }

\* parseCmd: how many primitives a command applies
NumPrimitives(cmd) ==
    CASE cmd.kind = "straight" ->
             (IF FloorDiv(cmd.dist, 10) >= 0 THEN FloorDiv(cmd.dist, 10)
              ELSE -FloorDiv(cmd.dist, 10))
      [] cmd.kind = "turn" -> (IF cmd.op = "none" THEN 0 ELSE 1)
      [] OTHER -> 0

\* parseCmd: the primitive a command applies
CommandOp(cmd) ==
    CASE cmd.kind = "straight" ->
             (IF cmd.dist >= 0 THEN "moveForward" ELSE "moveBackward")
      [] OTHER -> cmd.op

\* a poll that never finds the ESC key
EscSeenNever(events) == FALSE

\* the poll before a command: whether the events fetched hold a KEYDOWN of ESC
EscSeen(events) ==
    \E i \in 1..Len(events) : events[i] = "ESC"

\* _handleKeyDown: the primitive of the arrow keys held alone
SimKeyOp(e) == IF e = "UP" THEN "moveForward" ELSE "moveBackward"

ExecInit ==
    /\ pc = "sim_idle"
    /\ \E p \in ExecStartPoses : bot = set_position(p.row, p.col, p.dir)
    /\ currentPos = updatingDisplay(bot)
    /\ commands \in PlannedCommandLists
    /\ obstacles = {}
    /\ direction = <<"L", "R">>
    /\ arc = MedArc
    /\ movement = 0
    /\ step = 0
    /\ remaining = 0
    /\ pending = 0
    /\ lastOps = << >>
    /\ episode = [NoEpisode EXCEPT !.start = currentPos]
    /\ script = << >>
    /\ phaseLog = << >>
    /\ is_executing = FALSE
    /\ queue = << >>
    /\ batch = << >>
    /\ posted = 0
    /\ trail = << >>
    /\ NoLink

\* the user presses a key or clicks START: pygame queues the event
SimPost(e) ==
    /\ pc \in {"sim_idle", "sim_plan", "sim_poll", "sim_cmd"}
    /\ posted < MaxPosted
    /\ queue' = Append(queue, e)
    /\ posted' = posted + 1
    /\ UNCHANGED <<bot, currentPos, obstacles, direction, arc, movement, pc,
                   step, remaining, pending, lastOps, episode, script,
                   phaseLog, is_executing, commands, batch, trail>>
    /\ UNCHANGED linkState

\* runSimulation, one pass of while True: updatingDisplay, then
\* pygame.event.get() hands over everything queued
SimFetch ==
    /\ pc = "sim_idle"
    /\ batch = << >>
    /\ queue # << >> \/ currentPos # updatingDisplay(bot)
    /\ currentPos' = updatingDisplay(bot)
    /\ batch' = queue
    /\ queue' = << >>
    /\ UNCHANGED <<bot, obstacles, direction, arc, movement, pc, step,
                   remaining, pending, lastOps, episode, script, phaseLog,
                   is_executing, commands, posted, trail>>
    /\ UNCHANGED linkState

\* _handleMouseClick on START with the busy flag clear: the flag is set and
\* the try block is entered
SimClickStart ==
    /\ pc = "sim_idle"
    /\ batch # << >> /\ Head(batch) = "START"
    /\ ~is_executing
    /\ batch' = Tail(batch)
    /\ is_executing' = TRUE
    /\ pc' = "sim_plan"
    /\ step' = 1
    /\ remaining' = 0
    /\ script' = << >>
    /\ phaseLog' = <<"start">>
    /\ episode' = [episode EXCEPT !.start = currentPos]
    /\ UNCHANGED <<bot, currentPos, obstacles, direction, arc, movement,
                   pending, lastOps, commands, queue, posted, trail>>
    /\ UNCHANGED linkState

\* _handleMouseClick within click_delay of the last click: return
SimClickTooSoon ==
    /\ pc = "sim_idle"
    /\ batch # << >> /\ Head(batch) \in {"START", "RESET"}
    /\ batch' = Tail(batch)
    /\ UNCHANGED <<bot, currentPos, obstacles, direction, arc, movement, pc,
                   step, remaining, pending, lastOps, episode, script,
                   phaseLog, is_executing, commands, queue, posted, trail>>
    /\ UNCHANGED linkState

\* _handleKeyDown on ESC in the main loop: clears the flag when it is set
SimKeyEsc ==
    /\ pc = "sim_idle"
    /\ batch # << >> /\ Head(batch) = "ESC"
    /\ batch' = Tail(batch)
    /\ is_executing' = FALSE
    /\ UNCHANGED <<bot, currentPos, obstacles, direction, arc, movement, pc,
                   step, remaining, pending, lastOps, episode, script,
                   phaseLog, commands, queue, posted, trail>>
    /\ UNCHANGED linkState

\* _handleKeyDown on an arrow key in the main loop: nothing while the flag
\* is set, else the primitive, from the pose the display last read
SimKeyMove ==
    /\ pc = "sim_idle"
    /\ batch # << >> /\ Head(batch) \in {"UP", "DOWN"}
    /\ batch' = Tail(batch)
    /\ IF is_executing
       THEN UNCHANGED <<bot, lastOps, trail>>
       ELSE LET op == SimKeyOp(Head(batch))
                out == SimApply(op, currentPos, arc)
            IN  /\ bot' = SimCommit(bot, out)
                /\ lastOps' = OpLog(<<op>>, <<out>>)
                /\ trail' = Append(trail, Attempt(op, currentPos, out,
                                                  updatingDisplay(bot')))
    /\ UNCHANGED <<currentPos, obstacles, direction, arc, movement, pc, step,
                   remaining, pending, episode, script, phaseLog,
                   is_executing, commands, queue, posted>>
    /\ UNCHANGED linkState

\* a finally that leaves the flag as it is
FinallyKeepsFlag(how) ==
    /\ is_executing' = is_executing
    /\ pc' = "sim_idle"
    /\ phaseLog' = Append(phaseLog, how)

\* the end of the START branch: finally clears the flag and the handler
\* returns to the main loop
Finally(how) ==
    /\ is_executing' = FALSE
    /\ pc' = "sim_idle"
    /\ phaseLog' = Append(phaseLog, how)

\* plan_path (not part of the sources read here; its result is commands):
\* it returns and the for loop over the commands begins, or it raises, the
\* except clause prints the error and finally follows
SimPlanPath ==
    /\ pc = "sim_plan"
    /\ \/ pc' = "sim_poll" /\ UNCHANGED <<is_executing, phaseLog>>
       \/ Finally("error")
    /\ UNCHANGED <<bot, currentPos, obstacles, direction, arc, movement,
                   step, remaining, pending, lastOps, episode, script,
                   commands, queue, batch, posted, trail>>
    /\ UNCHANGED linkState

\* _handleMouseClick on RESET: the flag is cleared and reset puts the robot
\* on its starting cell (world position 180, 10 taken as cell (18, 1));
\* reset also empties the command list, which the next plan_path fills again
SimClickReset ==
    /\ pc = "sim_idle"
    /\ batch # << >> /\ Head(batch) = "RESET"
    /\ batch' = Tail(batch)
    /\ is_executing' = FALSE
    /\ bot' = set_position(FloorDiv(180, 10), FloorDiv(10, 10), "TOP")
    /\ currentPos' = Pose(FloorDiv(180, 10), FloorDiv(10, 10), "TOP")
    /\ UNCHANGED <<obstacles, direction, arc, movement, pc, step, remaining,
                   pending, lastOps, episode, script, phaseLog, commands,
                   queue, posted, trail>>
    /\ UNCHANGED linkState

\* the timeout check at the top of the for loop finds the time used up
SimTimeout ==
    /\ pc = "sim_poll"
    /\ step <= Len(commands)
    /\ Finally("timeout")
    /\ UNCHANGED <<bot, currentPos, obstacles, direction, arc, movement,
                   step, remaining, pending, lastOps, episode, script,
                   commands, queue, batch, posted, trail>>
    /\ UNCHANGED linkState

\* The top of the for loop over the commands.  When the list is used up the
\* loop ends.  Else pygame.event.get() empties the queue; a KEYDOWN of ESC
\* among the events clears the flag and returns, every other event is
\* dropped; without ESC parseCmd begins (for a turn or a scan with
\* updatingDisplay), and a command without primitive is over at once; a
\* command that raises leads through the except clause to finally.
SimPoll ==
    /\ pc = "sim_poll"
    /\ IF step > Len(commands)
       THEN /\ Finally("finished")
            /\ UNCHANGED <<currentPos, step, remaining, queue>>
       ELSE /\ queue' = << >>
            /\ IF EscSeen(queue)
               THEN /\ Finally("cancelled")
                    /\ UNCHANGED <<currentPos, step, remaining>>
               ELSE IF commands[step].kind = "raises"
               THEN /\ Finally("error")
                    /\ UNCHANGED <<currentPos, step, remaining>>
               ELSE /\ UNCHANGED <<is_executing, phaseLog>>
                    /\ currentPos' =
                           IF commands[step].kind = "straight" THEN currentPos
                           ELSE updatingDisplay(bot)
                    /\ remaining' = NumPrimitives(commands[step])
                    /\ IF NumPrimitives(commands[step]) = 0
                       THEN pc' = "sim_poll" /\ step' = step + 1
                       ELSE pc' = "sim_cmd" /\ step' = step
    /\ UNCHANGED <<bot, obstacles, direction, arc, movement, pending,
                   lastOps, episode, script, commands, batch, posted, trail>>
    /\ UNCHANGED linkState

\* parseCmd: one primitive of the running command and the updatingDisplay
\* after it; after the command's last primitive the for loop goes on
SimCmdStep ==
    /\ pc = "sim_cmd"
    /\ remaining > 0
    /\ LET op == CommandOp(commands[step])
           out == SimApply(op, currentPos, arc)
       IN  /\ bot' = SimCommit(bot, out)
           /\ currentPos' = updatingDisplay(bot')
           /\ lastOps' = OpLog(<<op>>, <<out>>)
           /\ script' = Append(script, op)
           /\ trail' = Append(trail, Attempt(op, currentPos, out, currentPos'))
    /\ remaining' = remaining - 1
    /\ IF remaining = 1
       THEN pc' = "sim_poll" /\ step' = step + 1
       ELSE pc' = pc /\ step' = step
    /\ UNCHANGED <<obstacles, direction, arc, movement, pending, episode,
                   phaseLog, is_executing, commands, queue, batch, posted>>
    /\ UNCHANGED linkState

ExecNext ==
    \/ \E e \in SimEvents : SimPost(e)
    \/ SimFetch
    \/ SimClickStart
    \/ SimPlanPath
    \/ SimClickReset
    \/ SimClickTooSoon
    \/ SimKeyEsc
    \/ SimKeyMove
    \/ SimTimeout
    \/ SimPoll
    \/ SimCmdStep

ExecSpec == ExecInit /\ [][ExecNext]_vars

(***************************************************************************)
(* connection_to_rpi: the TCP client of the Raspberry Pi side.             *)
(***************************************************************************)
\* How many calls on the client one behaviour makes.
MaxCalls == 4

\* everything the link code never touches
robotState ==
    <<bot, currentPos, obstacles, direction, arc, movement, step, remaining,
      pending, lastOps, episode, script, phaseLog, is_executing, commands,
      queue, batch, posted, trail>>

\* no simulation runs in the process that drives the link
RobotParked ==
    /\ bot = set_position(18, 1, "TOP")
    /\ currentPos = updatingDisplay(bot)
    /\ obstacles = {}
    /\ direction = <<"L", "R">>
    /\ arc = MedArc
    /\ movement = 0
    /\ step = 0
    /\ remaining = 0
    /\ pending = 0
    /\ lastOps = << >>
    /\ episode = NoEpisode
    /\ script = << >>
    /\ phaseLog = << >>
    /\ is_executing = FALSE
    /\ commands = << >>
    /\ queue = << >>
    /\ batch = << >>
    /\ posted = 0
    /\ trail = << >>

\* a value handed to a caller
Returned(v) == <<v>>

\* what is noted of a call: its name, how it ended, and whether it called
\* socket.send or socket.recv
Call(name, outcome, io) ==
    [call |-> name, outcome |-> outcome, io |-> io]

\* what a call leaves behind: the client object and the call's record
Done(c, name, outcome, io) ==
    [client |-> c, call |-> Call(name, outcome, io)]

\* an is_connected that only looks at the socket attribute
is_connected_socket_only(c) ==
    c.socket # "None"

\* RPiClient.is_connected
is_connected(c) ==
    c._connected /\ c.socket # "None"

\* how the operating system answers a connect: the connection is made, the
\* peer refuses or times out, or no socket can be created
ConnectAnswers == {"connected", "refused", "no socket"}

\* RPiClient.connect: a new socket object replaces self.socket, then
\* socket.connect; any OSError is raised as ConnectionError
connect(c, answer) ==
    CASE answer = "no socket" ->
            Done(c, "connect", "ConnectionError", FALSE)
      [] answer = "refused" ->
            Done([c EXCEPT !.socket = "unconnected"], "connect",
                 "ConnectionError", FALSE)
      [] OTHER ->
            Done([socket |-> "connected", _connected |-> TRUE], "connect",
                 "ok", FALSE)

\* a list element that is not a str
NotAStr == "<int>"

\* the argument of send_message: a str, a list of items, or something else
Messages(kind, items) == [kind |-> kind, items |-> items]

SendInputs ==
    { Messages("str", <<"a">>), Messages("str", <<"">>),
      Messages("list", <<"a", "b">>), Messages("list", <<"", "a">>),
      Messages("list", << >>), Messages("list", <<"a", NotAStr>>),
      Messages("other", << >>) }

\* which socket.send of a call raises OSError (0: none)
SendFailures == 0..2

\* the for loop of send_message from item i on, after sent calls of
\* socket.send: a non-str item raises ValueError, an empty item is skipped,
\* an OSError of socket.send clears _connected and raises ConnectionError
RECURSIVE send_loop(_, _, _, _, _)
send_loop(c, items, i, sent, fail) ==
    IF i > Len(items)
    THEN Done(c, "send_message", "ok", sent > 0)
    ELSE IF items[i] = NotAStr
    THEN Done(c, "send_message", "ValueError", sent > 0)
    ELSE IF items[i] = ""
    THEN send_loop(c, items, i + 1, sent, fail)
    ELSE IF c.socket = "unconnected" \/ sent + 1 = fail
    THEN Done([c EXCEPT !._connected = FALSE], "send_message",
              "ConnectionError", TRUE)
    ELSE send_loop(c, items, i + 1, sent + 1, fail)

\* RPiClient.send_message
send_message(c, messages, fail) ==
    IF ~is_connected(c)
    THEN Done(c, "send_message", "ConnectionError", FALSE)
    ELSE IF messages.kind = "other"
    THEN Done(c, "send_message", "ValueError", FALSE)
    ELSE IF messages.items = << >>
    THEN Done(c, "send_message", "ValueError", FALSE)
    ELSE send_loop(c, messages.items, 1, 0, fail)

\* how socket.recv answers: some bytes, b"" (the peer closed), or OSError
RecvAnswers == {"data", "closed", "error"}

\* RPiClient.receive_message
receive_message(c, answer) ==
    IF ~is_connected(c)
    THEN Done(c, "receive_message", "ConnectionError", FALSE)
    ELSE IF c.socket = "unconnected" \/ answer = "error"
    THEN Done([c EXCEPT !._connected = FALSE], "receive_message",
              "ConnectionError", TRUE)
    ELSE IF answer = "closed"
    THEN Done([c EXCEPT !._connected = FALSE], "receive_message", "None", TRUE)
    ELSE Done(c, "receive_message", "data", TRUE)

\* RPiClient.close: with a socket, drop it and clear _connected (an OSError
\* of socket.close is swallowed); without one, nothing
close(c) ==
    IF c.socket # "None"
    THEN Done([socket |-> "None", _connected |-> FALSE], "close", "ok", FALSE)
    ELSE Done(c, "close", "ok", FALSE)

\* a call on the client by the code that holds it
ClientCall(done) ==
    /\ pc = "link"
    /\ Len(calls) < MaxCalls
    /\ client' = done.client
    /\ calls' = Append(calls, done.call)
    /\ UNCHANGED <<pc, wire, data_chunks, received>>
    /\ UNCHANGED robotState

ClientConnect ==
    \E answer \in ConnectAnswers : ClientCall(connect(client, answer))

ClientSend ==
    \E messages \in SendInputs, fail \in SendFailures :
        ClientCall(send_message(client, messages, fail))

ClientReceive ==
    \E answer \in RecvAnswers : ClientCall(receive_message(client, answer))

ClientClose ==
    ClientCall(close(client))

\* rpi_main.connect_to_pc_server, one pass of its while loop: connect; on
\* success "return client" leaves the with block of managed_client, whose
\* finally closes the client before the caller has it; ConnectionError is
\* an OSError, so a failure sleeps and tries again
ConnectToPcServer ==
    /\ pc = "main_connect"
    /\ \E answer \in ConnectAnswers :
          LET tried == connect(client, answer)
              closed == close(tried.client)
          IN  IF tried.call.outcome = "ok"
              THEN /\ Len(calls) + 2 <= MaxCalls
                   /\ client' = closed.client
                   /\ calls' = calls \o <<tried.call, closed.call>>
                   /\ received' = Returned(closed.client)
                   /\ pc' = "link"
              ELSE /\ Len(calls) < MaxCalls
                   /\ client' = tried.client
                   /\ calls' = Append(calls, tried.call)
                   /\ UNCHANGED <<received, pc>>
    /\ UNCHANGED <<wire, data_chunks>>
    /\ UNCHANGED robotState

\* a client made by hand, or the one connect_to_pc_server is about to make
LinkInit ==
    /\ pc \in {"link", "main_connect"}
    /\ RobotParked
    /\ NoLink

LinkNext ==
    \/ ClientConnect
    \/ ClientSend
    \/ ClientReceive
    \/ ClientClose
    \/ ConnectToPcServer

LinkSpec == LinkInit /\ [][LinkNext]_vars

(***************************************************************************)
(* connection_to_rpi: RPiServer.receive_data.                              *)
(* Bytes are named by the ASCII character they encode; "xC3" and "xA9" are *)
(* the two bytes of the UTF-8 encoding of "eacute".  Python values are written  *)
(* as sequences of integers: <<0, n>> an int, <<1>> None, <<2, k, codes>>  *)
(* a str of k characters, <<3, k, items>> a list of k items.               *)
(***************************************************************************)
\* self.buffer_size, scaled down: the most bytes one conn.recv returns
BufferSize == 3

\* the characters of the texts modelled
Alphabet ==
    <<"1", "2", "[", "]", ",", " ", "\"", "n", "u", "l", "eacute">>

Code(ch) == CHOOSE i \in 1..Len(Alphabet) : Alphabet[i] = ch

PyNone == <<1>>

\* b"".join(data_chunks)
RECURSIVE join(_)
join(chunks) ==
    IF chunks = << >> THEN << >> ELSE Head(chunks) \o join(Tail(chunks))

\* bytes.decode('utf-8'): [ok, text]; a lead byte without its continuation
\* byte, or a continuation byte alone, is a UnicodeDecodeError
RECURSIVE decode(_)
decode(b) ==
    IF b = << >> THEN [ok |-> TRUE, text |-> << >>]
    ELSE IF Head(b) = "xC3"
    THEN IF Len(b) >= 2 /\ b[2] = "xA9"
         THEN LET rest == decode(SubSeq(b, 3, Len(b)))
              IN  [ok |-> rest.ok, text |-> <<"eacute">> \o rest.text]
         ELSE [ok |-> FALSE, text |-> << >>]
    ELSE IF Head(b) = "xA9"
    THEN [ok |-> FALSE, text |-> << >>]
    ELSE LET rest == decode(Tail(b))
         IN  [ok |-> rest.ok, text |-> <<Head(b)>> \o rest.text]

\* the character at index i of text t, or "EOF" past its end
At(t, i) == IF i <= Len(t) THEN t[i] ELSE "EOF"

\* the JSON scanner: what a parse step yields
Parsed(val, next) == [ok |-> TRUE, val |-> val, next |-> next]

ParseError == [ok |-> FALSE, val |-> << >>, next |-> 0]

\* skipping JSON whitespace from index i
RECURSIVE skip_ws(_, _)
skip_ws(t, i) ==
    IF At(t, i) = " " THEN skip_ws(t, i + 1) ELSE i

\* a run of digits from index i with the value n read so far
RECURSIVE parse_digits(_, _, _)
parse_digits(t, i, n) ==
    IF At(t, i) = "1" THEN parse_digits(t, i + 1, 10 * n + 1)
    ELSE IF At(t, i) = "2" THEN parse_digits(t, i + 1, 10 * n + 2)
    ELSE Parsed(<<0, n>>, i)

\* the characters of a string literal from index i up to the closing quote
RECURSIVE parse_chars(_, _, _)
parse_chars(t, i, codes) ==
    IF At(t, i) = "EOF" THEN ParseError
    ELSE IF At(t, i) = "\"" THEN Parsed(<<2, Len(codes)>> \o codes, i + 1)
    ELSE parse_chars(t, i + 1, Append(codes, Code(t[i])))

\* a JSON value at index i; the items of a list after "[" or ","
RECURSIVE parse_value(_, _), parse_items(_, _, _, _)
parse_value(t, i) ==
    CASE At(t, i) \in {"1", "2"} -> parse_digits(t, i, 0)
      [] At(t, i) = "\"" -> parse_chars(t, i + 1, << >>)
      [] At(t, i) = "n" ->
            IF At(t, i + 1) = "u" /\ At(t, i + 2) = "l" /\ At(t, i + 3) = "l"
            THEN Parsed(PyNone, i + 4) ELSE ParseError
      [] At(t, i) = "[" ->
            IF At(t, skip_ws(t, i + 1)) = "]"
            THEN Parsed(<<3, 0>>, skip_ws(t, i + 1) + 1)
            ELSE parse_items(t, skip_ws(t, i + 1), 0, << >>)
      [] OTHER -> ParseError

parse_items(t, i, k, items) ==
    LET item == parse_value(t, i)
        after == skip_ws(t, item.next)
    IN  IF ~item.ok THEN ParseError
        ELSE IF At(t, after) = ","
        THEN parse_items(t, skip_ws(t, after + 1), k + 1, items \o item.val)
        ELSE IF At(t, after) = "]"
        THEN Parsed(<<3, k + 1>> \o items \o item.val, after + 1)
        ELSE ParseError

\* json.loads: one value with whitespace around it and nothing after, else
\* JSONDecodeError
loads(t) ==
    LET v == parse_value(t, skip_ws(t, 1))
    IN  IF v.ok /\ skip_ws(t, v.next) = Len(t) + 1 THEN v ELSE ParseError

\* json.loads(bytes.decode('utf-8')): fails on either error
loads_bytes(b) ==
    IF decode(b).ok THEN loads(decode(b).text) ELSE ParseError

\* what receive_data hands back: a value, or ValueError raised
Value(v) == [raised |-> FALSE, value |-> v]

ValueErrorRaised == [raised |-> TRUE, value |-> << >>]

\* JSON texts a peer sends: 12, [1,2], [1, 2], null, "eacute", [], 1 followed
\* by a space, [[2],1]
JsonTexts ==
    { <<"1", "2">>, <<"[", "1", ",", "2", "]">>,
      <<"[", "1", ",", " ", "2", "]">>, <<"n", "u", "l", "l">>,
      <<"\"", "xC3", "xA9", "\"">>, <<"[", "]">>, <<"1", " ">>,
      <<"[", "[", "2", "]", ",", "1", "]">> }

\* a peer that closes without sending, or in the middle of a message
BrokenTexts ==
    { << >>, <<"[", "1">>, <<"\"", "xC3">> }

\* conn.recv(self.buffer_size) returns the next n bytes: append the chunk,
\* try to parse all that has arrived, break when it parses, else go on
RecvChunk ==
    /\ pc = "recv"
    /\ LET got == Len(join(data_chunks))
       IN  \E n \in 1..BufferSize :
              /\ got + n <= Len(wire)
              /\ data_chunks' = Append(data_chunks, SubSeq(wire, got + 1, got + n))
              /\ IF loads_bytes(join(data_chunks')).ok
                 THEN /\ received' = Returned(Value(loads_bytes(join(data_chunks')).val))
                      /\ pc' = "recv_done"
                 ELSE UNCHANGED <<received, pc>>
    /\ UNCHANGED <<client, calls, wire>>
    /\ UNCHANGED robotState

\* conn.recv returns b"": the peer has closed after its last byte.  Nothing
\* received is None; otherwise what has arrived is parsed, and ValueError
\* raised when it does not parse
RecvClosed ==
    /\ pc = "recv"
    /\ Len(join(data_chunks)) = Len(wire)
    /\ received' =
          IF data_chunks = << >> THEN Returned(Value(PyNone))
          ELSE IF loads_bytes(join(data_chunks)).ok
          THEN Returned(Value(loads_bytes(join(data_chunks)).val))
          ELSE Returned(ValueErrorRaised)
    /\ pc' = "recv_done"
    /\ UNCHANGED <<client, calls, wire, data_chunks>>
    /\ UNCHANGED robotState

RecvInit ==
    /\ pc = "recv"
    /\ RobotParked
    /\ client = NewClient
    /\ calls = << >>
    /\ wire \in JsonTexts \cup BrokenTexts
    /\ data_chunks = << >>
    /\ received = Nothing

RecvNext ==
    \/ RecvChunk
    \/ RecvClosed

RecvSpec == RecvInit /\ [][RecvNext]_vars

(***************************************************************************)
(* Vocabulary of the properties.                                           *)
(***************************************************************************)
\* the pose the robot object holds: the committed position
BotPose == updatingTask2Display(bot)

StraightOps == {"moveForward", "moveBackward"}

UncheckedOps == Primitives \ StraightOps

ObstacleCells(obs) == {ObstacleCell(o) : o \in obs}

\* the three cells abreast, n cells ahead of the centre of pose p (behind it
\* for negative n)
BandCells(p, n) ==
    CASE p.dir = "TOP" -> {<<p.row - n, c>> : c \in (p.col - 1)..(p.col + 1)}
      [] p.dir = "RIGHT" -> {<<r, p.col + n>> : r \in (p.row - 1)..(p.row + 1)}
      [] p.dir = "BOTTOM" -> {<<p.row + n, c>> : c \in (p.col - 1)..(p.col + 1)}
      [] p.dir = "LEFT" -> {<<r, p.col - n>> : r \in (p.row - 1)..(p.row + 1)}

Opposite(d) ==
    CASE d = "TOP" -> "BOTTOM"
      [] d = "RIGHT" -> "LEFT"
      [] d = "BOTTOM" -> "TOP"
      [] d = "LEFT" -> "RIGHT"

\* number of cells between two poses of one lane
Dist(p, q) ==
    (IF p.row >= q.row THEN p.row - q.row ELSE q.row - p.row)
    + (IF p.col >= q.col THEN p.col - q.col ELSE q.col - p.col)

IsPrefix(s, t) ==
    /\ Len(s) <= Len(t)
    /\ \A i \in 1..Len(s) : s[i] = t[i]

Rep(x, n) == [i \in 1..n |-> x]

\* the attempts of the second choreography with n passes of its loop
SecondScript(hint, n) ==
    Rep("moveBackward", 2)
    \o (IF hint = "L" THEN <<"turnLeft", "turnRight", "turnRight">>
        ELSE <<"turnRight", "turnLeft", "turnLeft">>)
    \o Rep("moveForward", 5)
    \o (IF hint = "L" THEN <<"turnRight">> ELSE <<"turnLeft">>)
    \o Rep("moveForward", n)
    \o (IF hint = "L" THEN <<"turnRight", "turnLeft">>
        ELSE <<"turnLeft", "turnRight">>)

\* a quarter turn to the right and to the left of a heading
QuarterRight(h) ==
    CASE h = "TOP" -> "RIGHT"
      [] h = "RIGHT" -> "BOTTOM"
      [] h = "BOTTOM" -> "LEFT"
      [] h = "LEFT" -> "TOP"

QuarterLeft(h) ==
    CASE h = "TOP" -> "LEFT"
      [] h = "LEFT" -> "BOTTOM"
      [] h = "BOTTOM" -> "RIGHT"
      [] h = "RIGHT" -> "TOP"

\* the attempts of trail that committed a pose with primitive op
Committed(op) ==
    {i \in 1..Len(trail) : trail[i].op = op /\ trail[i].commit}

\* trail is n attempts of primitive op, the first from a heading of the
\* tables
Repeated(op, n) ==
    /\ Len(trail) = n
    /\ \A i \in 1..n : trail[i].op = op
    /\ trail[1].from.dir \in Direction

\* trail is a moveForward followed by a moveBackward, or the reverse, from a
\* heading of the tables
ThereAndBack ==
    /\ Len(trail) = 2
    /\ {trail[1].op, trail[2].op} = StraightOps
    /\ trail[1].from.dir \in Direction

\* the obstacles the collision predicate is compared over, numbered
ObstacleUniverse ==
    <<ObstacleAt(8, 10, 5, 5), ObstacleAt(8, 10, 0, 9), ObstacleAt(28, 7, 9, 0),
      ObstacleAt(16, 7, 3, 4)>>

\* the obstacle set made of the obstacles whose numbers are in I
ObstaclesOf(I) == {ObstacleUniverse[i] : i \in I}

\* the subsets of ObstacleUniverse, each given by the numbers of its obstacles
Subsets == SUBSET (1..Len(ObstacleUniverse))

\* whether the Task-2 engine finds straight primitive op blocked at pose p
\* when its obstacles are obs
BlockedOver(op, p, obs) == Apply(op, p, obs, arc).blocked

\* the subsets of ObstacleUniverse over which straight primitive op is
\* blocked at pose p
BlockingSubsets(op, p) ==
    UNION { IF BlockedOver(op, p, ObstaclesOf(I)) THEN {I} ELSE {} :
            I \in Subsets }

\* the last attempt of trail
LastAttempt == trail[Len(trail)]

\* the change <<of row, of col>> of one cell ahead for a heading
OneAhead(h) ==
    CASE h = "TOP" -> <<-1, 0>>
      [] h = "BOTTOM" -> <<1, 0>>
      [] h = "RIGHT" -> <<0, 1>>
      [] h = "LEFT" -> <<0, -1>>

DiagonalOps ==
    {"moveNorthEast", "moveNorthWest", "moveSouthEast", "moveSouthWest"}

\* whether the event queue holds a KEYDOWN of ESC
EscQueued == \E i \in 1..Len(queue) : queue[i] = "ESC"

\* the step taken notes the cancellation of the running sequence
Cancels == phaseLog' = Append(phaseLog, "cancelled")

\* the running sequence was cancelled and no other has begun since
WasCancelled ==
    phaseLog # << >> /\ phaseLog[Len(phaseLog)] = "cancelled"

\* |d| div 10 with truncation toward zero
StepsTowardZero(d) == (IF d >= 0 THEN d ELSE -d) \div 10

\* whether a pose of simulation.py lies on its grid
OnSimGrid(p) ==
    /\ 0 <= p.row /\ p.row < SimRows
    /\ 0 <= p.col /\ p.col < SimRows

\* whether the probed engine is simulation.py
SimEngine == pc = "sim_idle"

PhaseOrder == <<"scan1", "avoid1", "scan2", "avoid2", "done">>

\* the first choreography has just returned
FirstManeuverEnded ==
    pc = "scan2" /\ lastOps = << >> /\ direction[1] \in {"L", "R"}

\* the second choreography has just returned
SecondManeuverEnded ==
    pc = "done" /\ direction[2] \in {"L", "R"}

(***************************************************************************)
(* C1.  After any sequence of primitives from an in-bounds pose the        *)
(* committed position is inside the arena: 0 <= row < rows and             *)
(* 0 <= col < cols.                                                        *)
(***************************************************************************)
C1_CommittedPoseInBounds ==
    InBounds(BotPose)

(***************************************************************************)
(* C2.  A moveForward or moveBackward that returns -1 leaves the robot's   *)
(* committed row, column and heading and the obstacle set as they were.    *)
(***************************************************************************)
C2_RejectedStraightChangesNothing ==
    [][\A i \in 1..Len(lastOps') :
          (lastOps'[i].op \in StraightOps /\ lastOps'[i].result = -1)
             => (bot' = bot /\ BotPose' = BotPose /\ obstacles' = obstacles)]_vars

\* a moveBackward rejected at the edge of the arena
C2_Witness ==
    /\ lastOps = <<[op |-> "moveBackward", result |-> -1, blocked |-> FALSE]>>
    /\ InBounds(BotPose)

(***************************************************************************)
(* C3.  moveForward is rejected exactly when an obstacle's cell is one of  *)
(* the three cells of the band two cells ahead of the pose it is computed  *)
(* from, and moveBackward is rejected by its collision check exactly when  *)
(* an obstacle's cell is one of the three cells two cells behind; at       *)
(* (10, 10, TOP) an obstacle in cell (8, 10) blocks moveForward.           *)
(***************************************************************************)
C3_BlockedIffObstacleInBand ==
    [][\A i \in 1..Len(lastOps') :
          /\ lastOps'[i].op = "moveForward" =>
                /\ (lastOps'[i].result = -1) <=>
                      (BandCells(currentPos, 2) \cap ObstacleCells(obstacles) # {})
                /\ lastOps'[i].blocked <=> (lastOps'[i].result = -1)
                /\ (currentPos = Pose(10, 10, "TOP")
                      /\ <<8, 10>> \in ObstacleCells(obstacles))
                     => lastOps'[i].result = -1
          /\ lastOps'[i].op = "moveBackward" =>
                /\ lastOps'[i].blocked <=>
                      (BandCells(currentPos, -2) \cap ObstacleCells(obstacles) # {})
                /\ lastOps'[i].blocked => lastOps'[i].result = -1]_vars

\* the scenario: moveForward blocked at (10, 10, TOP) by the obstacle in (8, 10)
C3_Witness ==
    /\ lastOps = <<[op |-> "moveForward", result |-> -1, blocked |-> TRUE]>>
    /\ currentPos = Pose(10, 10, "TOP")
    /\ <<8, 10>> \in ObstacleCells(obstacles)

(***************************************************************************)
(* C4.  A run of task2Algo enters scan1, avoid1, scan2, avoid2, done in    *)
(* that order, each at most once; an avoiding phase is entered only by the *)
(* step of the scanning loop before it whose moveForward was rejected by   *)
(* the collision check; while scanning only moveForward is attempted.      *)
(***************************************************************************)
C4_PhasesInOrder ==
    [][/\ IsPrefix(phaseLog', PhaseOrder)
       /\ pc' # "idle" => (phaseLog' # << >> /\ pc' = phaseLog'[Len(phaseLog')])
       /\ (pc' \in {"avoid1", "avoid2"} /\ pc' # pc) =>
             /\ pc = (IF pc' = "avoid1" THEN "scan1" ELSE "scan2")
             /\ lastOps' = <<[op |-> "moveForward", result |-> -1, blocked |-> TRUE]>>
       /\ pc \in {"scan1", "scan2"} =>
             /\ Len(lastOps') = 1
             /\ lastOps'[1].op = "moveForward"
             /\ script' \in {script, << >>}
             /\ lastOps'[1].result = 1 => pc' = pc]_vars

C4_Witness ==
    pc = "done" /\ phaseLog = PhaseOrder

(***************************************************************************)
(* C5.  Every started run reaches done: each scanning loop eventually      *)
(* observes a rejected moveForward.  A scanning loop only moves straight   *)
(* ahead and moveForward is rejected only by an obstacle in its band, so   *)
(* the loop ends from a state exactly if an obstacle's cell lies in the    *)
(* band at some distance ahead; this is stated of every scanning state.    *)
(***************************************************************************)
C5_ScanMeetsObstacle ==
    pc \in {"scan1", "scan2"} =>
        \E n \in 2..(Rows + Cols + 2 * Margin + 2) :
            BandCells(currentPos, n) \cap ObstacleCells(obstacles) # {}

C7_SecondManeuverRestoresHeading ==
    SecondManeuverEnded => currentPos.dir = episode.pose.dir

(***************************************************************************)
(* C7, amended.  When the two closing turns of the second-obstacle         *)
(* maneuver are done the heading is the opposite of the one the maneuver   *)
(* started with, for every starting heading and both variants.             *)
(***************************************************************************)
C7_SecondManeuverReversesHeading ==
    SecondManeuverEnded => currentPos.dir = Opposite(episode.pose.dir)

C7_Witness ==
    /\ SecondManeuverEnded
    /\ direction[2] = "L"
    /\ episode.pose.dir = "RIGHT"
    /\ currentPos.dir = "LEFT"

(***************************************************************************)
(* C8.  As claimed: movement["forward"] is 0 when an avoidance episode     *)
(* begins, and the first maneuver ends with 7.                             *)
(***************************************************************************)
C8_CreditZeroAtEpisodeStart ==
    /\ pc \in {"avoid1", "avoid2"} => episode.credit = 0
    /\ FirstManeuverEnded => movement = 7

(***************************************************************************)
(* C8, amended.  movement["forward"] is 0 when task2Algo starts.  The      *)
(* scanning loops count their committed steps in it: an avoidance episode  *)
(* begins with the value the scan began with plus the number of cells the  *)
(* scan advanced, the first scan begins with 0, and the first maneuver     *)
(* ends with the first scan's step count plus 7.                           *)
(***************************************************************************)
C8_CreditCarriesScanCount ==
    /\ (pc = "scan1" /\ lastOps = << >>) => movement = 0
    /\ pc \in {"avoid1", "avoid2"} =>
          episode.credit = episode.carried + Dist(episode.scanFrom, episode.pose)
    /\ pc \in {"scan1", "avoid1"} =>
          (episode.carried = 0 /\ episode.scanFrom = episode.start)
    /\ FirstManeuverEnded =>
          movement = Dist(episode.start, episode.pose) + 7

\* an episode that begins after a scan of two committed steps
C8_Witness ==
    /\ pc = "avoid1"
    /\ Dist(episode.start, episode.pose) = 2
    /\ episode.credit = 2

(***************************************************************************)
(* C9.  The second-obstacle maneuver attempts, in this order, two          *)
(* moveBackward (movement["forward"] - 1 each), debits one more, three     *)
(* turns, five moveForward, one turn, as many moveForward as               *)
(* movement["forward"] then holds (its value at the start minus 3; none if *)
(* that is not positive), and two turns; the moveForward attempts leave    *)
(* movement["forward"] alone.                                              *)
(***************************************************************************)
C9_SecondManeuverScript ==
    LET n == IF episode.credit - 3 > 0 THEN episode.credit - 3 ELSE 0
    IN  /\ (pc = "avoid2" /\ direction[2] \in {"L", "R"}) =>
              /\ step \in 1..3 =>
                    (movement = episode.credit - (step - 1)
                       /\ script = Rep("moveBackward", step - 1))
              /\ step >= 4 => movement = episode.credit - 3
              /\ step = 4 => script = Rep("moveBackward", 2)
              /\ IsPrefix(script, SecondScript(direction[2], n))
        /\ SecondManeuverEnded =>
              /\ script = SecondScript(direction[2], n)
              /\ movement = episode.credit - 3

\* a second maneuver completed whose loop ran at least once
C9_Witness ==
    /\ SecondManeuverEnded
    /\ episode.credit - 3 > 0
    /\ Len(script) = 13 + (episode.credit - 3)

(***************************************************************************)
(* C10.  Turns, reverse turns and diagonal moves are not collision-checked:*)
(* whatever the obstacles, they return 1 and commit the pose they would    *)
(* commit with no obstacle at all, even onto an obstacle's cell.           *)
(***************************************************************************)
C10_TurnsAndDiagonalsAlwaysCommit ==
    [][\A i \in 1..Len(lastOps') :
          lastOps'[i].op \in UncheckedOps =>
             /\ lastOps'[i].result = 1
             /\ ~lastOps'[i].blocked
             /\ Len(lastOps') = 1 =>
                   /\ BotPose' = Apply(lastOps'[1].op, currentPos, {}, arc).pos
                   /\ bot' # bot]_vars

\* a turn committed onto the cell of an obstacle
C10_Witness ==
    /\ lastOps = <<[op |-> "turnRight", result |-> 1, blocked |-> FALSE]>>
    /\ <<BotPose.row, BotPose.col>> \in ObstacleCells(obstacles)

(***************************************************************************)
(* C11.  A rejected step tells Blocked from OutOfBounds: a moveBackward    *)
(* rejected for a candidate outside the arena returns a value other than   *)
(* the one it returns when an obstacle is in the band behind (-1).         *)
(***************************************************************************)
C11_OutOfBoundsDistinctFromBlocked ==
    \A i \in 1..Len(lastOps) :
        (lastOps[i].op = "moveBackward" /\ lastOps[i].result # 1
           /\ ~lastOps[i].blocked)
          => lastOps[i].result # -1

(***************************************************************************)
(* C20.  Inside a choreography a rejected sub-step changes nothing of the  *)
(* script: whatever a step returned, the statement that follows is the     *)
(* next one of the fixed order, the step is not attempted again, and       *)
(* movement["forward"] changes by the statement's amount; a rejected step  *)
(* leaves the robot where it was; after the three backups of the first     *)
(* maneuver 3 has been debited.                                            *)
(***************************************************************************)
C20_RejectedSubStepKeepsScript ==
    [][/\ (pc \in {"avoid1", "avoid2"} /\ pc' = pc /\ Len(lastOps') = 1) =>
             LET ins == Choreography(pc, direction)[step]
             IN  /\ lastOps'[1].op =
                       (IF ins.op = "for" THEN "moveForward" ELSE ins.op)
                 /\ script' = Append(script, lastOps'[1].op)
                 /\ movement' = movement + ins.delta
                 /\ IF ins.op = "for"
                    THEN step' = step /\ remaining' = remaining - 1
                    ELSE step' = step + 1 /\ remaining' = remaining
                 /\ lastOps'[1].result = -1 => bot' = bot
       /\ (pc' = "avoid1" /\ direction[1] \in {"L", "R"} /\ step' = 4) =>
             (movement' = episode'.credit - 3
                /\ script' = Rep("moveBackward", 3))]_vars

\* the first maneuver after three backups that were all rejected
C20_Witness ==
    /\ pc = "avoid1"
    /\ direction[1] \in {"L", "R"}
    /\ step = 4
    /\ lastOps = <<[op |-> "moveBackward", result |-> -1, blocked |-> FALSE]>>
    /\ currentPos = episode.pose
    /\ movement = episode.credit - 3

\* C12: a primitive called with a heading that has no entry in the kinematic
\* tables fails fatally (it raises, and the program stops there), whatever
\* the primitive; it does not return the -1 of a blocked step, it is not
\* ignored, and the pose is not committed.
C12_MissingHeadingIsFatal ==
    \A i \in 1..Len(trail) :
        trail[i].from.dir \notin Direction =>
            /\ trail[i].raised
            /\ trail[i].result # -1
            /\ ~trail[i].commit

\* C13: in both engines the heading a committed reverseTurnRight produces
\* from heading h is the one turnLeft produces from h (a quarter turn to the
\* left: from RIGHT, TOP), and the heading a committed reverseTurnLeft
\* produces is the one turnRight produces from h.
C13_ReverseTurnsAliasOppositeTurn ==
    /\ \A i \in Committed("reverseTurnRight") \cup Committed("turnLeft") :
           trail[i].to.dir = QuarterLeft(trail[i].from.dir)
    /\ \A i \in Committed("reverseTurnLeft") \cup Committed("turnRight") :
           trail[i].to.dir = QuarterRight(trail[i].from.dir)

\* simulation.py has committed a reverseTurnRight from RIGHT (to TOP) and
\* then a turnLeft
C13_Witness ==
    /\ SimEngine
    /\ Len(trail) = 2
    /\ 1 \in Committed("reverseTurnRight")
    /\ trail[1].from.dir = "RIGHT"
    /\ trail[1].to.dir = "TOP"
    /\ 2 \in Committed("turnLeft")

\* C14 as stated: after four successive turnRight, and after four successive
\* turnLeft, from any heading the robot has its original heading again.
C14_FourTurnsRestoreHeading ==
    \A op \in {"turnRight", "turnLeft"} :
        Repeated(op, 4) => trail[4].to.dir = trail[1].from.dir

\* C14: four successive turnRight that all commit follow the cycle TOP, RIGHT,
\* BOTTOM, LEFT, TOP and return the robot to its original heading; so do
\* four committed turnLeft, along the opposite cycle; and a committed turnLeft
\* undoes the heading change of a committed turnRight, and vice versa.
C14_FourCommittedTurnsRestoreHeading ==
    /\ \A i \in Committed("turnRight") :
           trail[i].to.dir = QuarterRight(trail[i].from.dir)
    /\ \A i \in Committed("turnLeft") :
           trail[i].to.dir = QuarterLeft(trail[i].from.dir)
    /\ \A op \in {"turnRight", "turnLeft"} :
           (Repeated(op, 4) /\ Committed(op) = 1..4)
               => trail[4].to.dir = trail[1].from.dir
    /\ (Len(trail) = 2 /\ Committed("turnRight") \cup Committed("turnLeft") = 1..2
          /\ trail[1].op # trail[2].op)
           => trail[2].to.dir = trail[1].from.dir

\* simulation.py has committed four successive turnRight from heading RIGHT
C14_Witness ==
    /\ SimEngine
    /\ Repeated("turnRight", 4)
    /\ Committed("turnRight") = 1..4
    /\ trail[1].from.dir = "RIGHT"
    /\ trail[4].to.dir = "RIGHT"

\* C15 as stated: from every pose, moveForward followed by moveBackward, or
\* moveBackward followed by moveForward, leaves the robot at the original
\* row, column and heading.
C15_ThereAndBackRestoresPose ==
    ThereAndBack => trail[2].to = trail[1].from

\* C15: when both steps are committed, moveForward followed by moveBackward,
\* or the reverse, leaves the robot at the original row, column and heading;
\* when the first is rejected and the second committed, or the reverse, the
\* robot ends one cell away.
C15_CommittedThereAndBackRestoresPose ==
    ThereAndBack =>
        /\ (trail[1].commit /\ trail[2].commit) => trail[2].to = trail[1].from
        /\ (trail[1].commit # trail[2].commit) =>
               Dist(trail[2].to, trail[1].from) = 1

\* the Task-2 engine has committed a moveForward and then a moveBackward
\* next to an obstacle
C15_Witness ==
    /\ ~SimEngine
    /\ ThereAndBack
    /\ obstacles # {}
    /\ trail[1].op = "moveForward"
    /\ trail[1].commit /\ trail[2].commit
    /\ trail[1].to # trail[1].from
    /\ currentPos = trail[1].from

\* C16: wherever the Task-2 engine has attempted a moveForward or a
\* moveBackward, for all obstacle sets A and B (subsets of ObstacleUniverse,
\* given by their numbers) the move is blocked there over
\* the union of A and B exactly when it is blocked over A or blocked over B;
\* over the empty set it is not blocked; and the attempt was rejected when
\* it is blocked over the engine's obstacles.
C16_BlockedDistributesOverUnion ==
    (/\ ~SimEngine
     /\ trail # << >>
     /\ LastAttempt.op \in StraightOps
     /\ LastAttempt.from.dir \in Direction) =>
        \A blocking \in {BlockingSubsets(LastAttempt.op, LastAttempt.from)} :
            /\ {} \notin blocking
            /\ \A A \in Subsets, B \in Subsets :
                   (A \cup B) \in blocking <=> (A \in blocking \/ B \in blocking)
            /\ \E I \in Subsets :
                   /\ obstacles = ObstaclesOf(I)
                   /\ I \in blocking => LastAttempt.result = -1

\* the Task-2 engine has just found a moveForward blocked by its three
\* obstacles, one of which blocks it alone and the two others do not
C16_Witness ==
    /\ ~SimEngine
    /\ Cardinality(obstacles) = 3
    /\ lastOps = <<[op |-> "moveForward", result |-> -1, blocked |-> TRUE]>>
    /\ \E o \in obstacles :
           /\ BlockedOver("moveForward", LastAttempt.from, {o})
           /\ ~BlockedOver("moveForward", LastAttempt.from, obstacles \ {o})

\* C17: in both engines a committed moveForward changes the pose by one cell
\* ahead (TOP: row - 1, BOTTOM: row + 1, RIGHT: col + 1, LEFT: col - 1, the
\* other coordinate unchanged), a committed moveBackward by the opposite; and
\* moveForward, moveBackward and the four diagonal moves leave the heading
\* as it was.
C17_StraightStepIsOneCellAlongHeading ==
    \A i \in 1..Len(trail) :
        trail[i].from.dir \in Direction =>
            /\ i \in Committed("moveForward") =>
                   /\ trail[i].to.row = trail[i].from.row + OneAhead(trail[i].from.dir)[1]
                   /\ trail[i].to.col = trail[i].from.col + OneAhead(trail[i].from.dir)[2]
            /\ i \in Committed("moveBackward") =>
                   /\ trail[i].to.row = trail[i].from.row - OneAhead(trail[i].from.dir)[1]
                   /\ trail[i].to.col = trail[i].from.col - OneAhead(trail[i].from.dir)[2]
            /\ trail[i].op \in StraightOps \cup DiagonalOps =>
                   trail[i].to.dir = trail[i].from.dir

\* simulation.py has committed a moveForward heading LEFT, one column to the
\* left, and then a diagonal move that changed row and column
C17_Witness ==
    /\ SimEngine
    /\ Len(trail) = 2
    /\ 1 \in Committed("moveForward")
    /\ trail[1].from.dir = "LEFT"
    /\ trail[1].to.col = trail[1].from.col - 1
    /\ trail[2].op \in DiagonalOps
    /\ trail[2].commit
    /\ trail[2].to.row # trail[2].from.row
    /\ trail[2].to.col # trail[2].from.col

\* C18: while a command sequence is executing (the Task-2 engine is in one
\* of the phases of task2Algo) the busy flag is set, so that a START or a
\* manual movement handled meanwhile finds it set.
C18_BusyFlagSetWhileExecuting ==
    pc \in {"scan1", "avoid1", "scan2", "avoid2"} => is_executing

\* C19: a command sequence of simulation.py is cancelled only at the poll
\* between two commands, by an ESC found in the queue there, and every poll
\* that finds an ESC cancels; the cancelling step applies no primitive and
\* leaves the robot where the last applied primitive put it, clears the busy
\* flag and ends the sequence; while a command is being executed nothing
\* cancels it, ESC queued or not; and after the cancellation no further
\* primitive of the sequence is applied.
C19_CancelledOnlyBetweenCommands ==
    [][ /\ Cancels =>
              /\ pc = "sim_poll" /\ EscQueued
              /\ bot' = bot /\ currentPos' = currentPos
              /\ script' = script /\ trail' = trail
              /\ pc' = "sim_idle" /\ ~is_executing'
        /\ (pc = "sim_poll" /\ EscQueued /\ queue' = << >>) => Cancels
        /\ pc = "sim_cmd" =>
              /\ is_executing' /\ phaseLog' = phaseLog
              /\ script' \in {script, Append(script, CommandOp(commands[step]))}
        /\ WasCancelled => script' \in {script, << >>}
        /\ (WasCancelled /\ script' # script) => phaseLog' = <<"start">>
      ]_vars

\* a sequence was cancelled after its first command, with commands left, and
\* the robot stands where the primitives applied before have put it
C19_Witness ==
    /\ WasCancelled
    /\ ~is_executing
    /\ pc = "sim_idle"
    /\ 1 < step /\ step <= Len(commands)
    /\ Len(script) >= 2
    /\ updatingDisplay(bot) # episode.start
    /\ updatingDisplay(bot) = trail[Len(trail)].to

\* C30: while parseCmd executes a StraightCommand of distance d, the steps
\* applied and those still to apply are together |d| div 10 (truncation
\* toward zero: 15 and -15 both give one step), forward when d >= 0 and
\* backward when d < 0.
C30_StraightStepsTruncateTowardZero ==
    (pc = "sim_cmd" /\ commands[step].kind = "straight") =>
        /\ remaining <= StepsTowardZero(commands[step].dist)
        /\ CommandOp(commands[step]) =
               (IF commands[step].dist >= 0 THEN "moveForward"
                ELSE "moveBackward")

\* C29 as stated: the busy flag of simulation.py is false whenever
\* _handleMouseClick has returned, and it is true only while the START
\* handler is iterating the command list.
C29_BusyOnlyWhileIteratingCommands ==
    /\ pc = "sim_idle" => ~is_executing
    /\ is_executing => pc \in {"sim_poll", "sim_cmd"}

\* C29: the busy flag of simulation.py is false whenever _handleMouseClick
\* has returned, whichever way it ended (all commands done, timeout, ESC, an
\* exception of plan_path or of a command, a click on RESET), and it is true
\* exactly while the try block of the START handler runs: during plan_path
\* and during the iteration of the command list.
C29_BusyExactlyInsideStartHandler ==
    /\ pc = "sim_idle" => ~is_executing
    /\ pc \in {"sim_plan", "sim_poll", "sim_cmd"} => is_executing
    /\ (phaseLog # << >> /\ pc = "sim_idle") =>
           phaseLog[Len(phaseLog)] \in {"finished", "timeout", "cancelled", "error"}

\* the START handler has returned through the except clause after a command
\* raised, one step of the sequence applied, and the flag is clear
C29_Witness ==
    /\ pc = "sim_idle"
    /\ ~is_executing
    /\ phaseLog = <<"start", "error">>
    /\ step = 2 /\ commands[step].kind = "raises"
    /\ Len(script) = 1

\* C25: in simulation.py the robot, started on the grid, is on the grid
\* after any sequence of primitives; every primitive that commits commits a
\* cell of the grid, and a primitive that does not commit leaves cell and
\* heading as they were (a turn rejected for bounds does not rotate).
C25_SimPrimitivesStayOnGrid ==
    SimEngine =>
        /\ OnSimGrid(updatingDisplay(bot))
        /\ OnSimGrid(currentPos)
        /\ \A i \in 1..Len(trail) :
               /\ OnSimGrid(trail[i].to)
               /\ ~trail[i].commit => trail[i].to = trail[i].from

\* simulation.py has committed a primitive and then rejected a turn whose
\* destination is off the grid
C25_Witness ==
    /\ SimEngine
    /\ Len(trail) = 2
    /\ trail[1].commit /\ trail[1].to # trail[1].from
    /\ trail[2].op \in {"turnRight", "turnLeft", "reverseTurnRight",
                        "reverseTurnLeft"}
    /\ trail[2].from.dir \in Direction
    /\ ~trail[2].commit
    /\ currentPos = trail[2].from

\* C24: whenever a primitive may run, the cached pose self.currentPos is the
\* pose last committed to the robot, so that movement inputs handled in a
\* row compose.
C24_CachedPoseIsCommittedPose ==
    currentPos = BotPose

\* C27: whatever the side hint of an obstacle is, the Avoiding phase for it
\* executes one of the two choreographies; no hint makes the phase a no-op.
C27_AvoidingPhaseRunsAChoreography ==
    pc \in {"scan2", "done"} => script # << >>

\* C26: when the loop of the second choreography that consumes the owed
\* forward credit begins (for _ in range(movement["forward"])), the credit
\* is k1 + k2 + 4 for the step counts k1, k2 of the two scans: it is
\* at least 4 and never negative.
C26_CreditOwedAtLeastFour ==
    (/\ pc = "avoid2"
     /\ step <= Len(Choreography(pc, direction))
     /\ Choreography(pc, direction)[step].op = "range")
        => movement >= 4

\* the calls that take the link down, and the one that brings it up
TakesDown(call) ==
    \/ call.call = "close"
    \/ call.call \in {"send_message", "receive_message"}
         /\ call.outcome \in {"ConnectionError", "None"}

BringsUp(call) ==
    call.call = "connect" /\ call.outcome = "ok"

\* before call i nothing has brought the link up since it was last down (or
\* since the client was made)
DownBefore(i) ==
    \A j \in 1..(i - 1) :
        BringsUp(calls[j]) => \E k \in (j + 1)..(i - 1) : TakesDown(calls[k])

\* C21: send_message and receive_message raise ConnectionError, without
\* calling socket.send or socket.recv, whenever the client is not connected:
\* before the first connect, after close, after a failed send or receive,
\* after receive_message returned None, until a later connect succeeds.
C21_NotConnectedRaisesWithoutIO ==
    \A i \in 1..Len(calls) :
        (calls[i].call \in {"send_message", "receive_message"} /\ DownBefore(i))
            => calls[i].outcome = "ConnectionError" /\ ~calls[i].io

\* a send or receive refused after the link was up and went down again
C21_Witness ==
    \E i \in 1..Len(calls) :
        /\ calls[i].call \in {"send_message", "receive_message"}
        /\ DownBefore(i)
        /\ \E j \in 1..(i - 1) : BringsUp(calls[j])
        /\ calls[i].outcome = "ConnectionError"

\* C22: connect_to_pc_server hands its caller a client for which
\* is_connected() is true.
C22_ReturnedClientIsConnected ==
    received # Nothing => is_connected(received[1])

\* C28: is_connected() is true only if the most recent connect succeeded and
\* nothing has taken the link down since; after a connect that raised
\* ConnectionError, also one on a connected client, it is false.
C28_ConnectedOnlyAfterLatestConnectSucceeded ==
    /\ is_connected(client) => ~DownBefore(Len(calls) + 1)
    /\ (calls # << >> /\ calls[Len(calls)].call = "connect"
        /\ calls[Len(calls)].outcome = "ConnectionError")
            => ~is_connected(client)

\* C23: receive_data returns the complete message, for every JSON value
\* sent and every way the bytes are split into chunks: never the parse of a
\* proper prefix, and None only when no byte arrived before the peer closed.
C23_ReceiveDataReturnsWholeMessage ==
    received # Nothing =>
        /\ wire \in JsonTexts =>
              received[1] = Value(loads_bytes(wire).val)
        /\ received[1] = Value(PyNone) => data_chunks = << >>

=============================================================================
